---- MODULE Spec2Model ----
(***************************************************************************)
(* Lifecycle of hydra-express (src/index.js, class HydraExpress and its    *)
(* public wrapper IHydraExpress, lines 1455-2100): plugin registration,    *)
(* config validation, the start() promise chain, the process handlers      *)
(* installed by initService(), and _shutdown().                            *)
(*                                                                         *)
(* External collaborators (hydra, the plugins, the http server, the        *)
(* process) are modelled by the calls made on them, recorded in `trace`,   *)
(* and by nondeterministic outcomes of their asynchronous operations.      *)
(***************************************************************************)
EXTENDS Integers, Sequences, FiniteSets, TLC

\* Bounds of the model.
MaxPlugins == 2
MaxSignals == 1
MaxShutdownCalls == 2

Plugins == 1..MaxPlugins

VARIABLES
  registeredPlugins,  \* this.registeredPlugins
  config,             \* the object handed to _init (NoConfig before init)
  pc,                 \* position of the init promise chain
  initPromise,        \* "none" | "pending" | "resolved" | "rejected"
  initError,          \* message of the rejection, as words
  setConfigSt,        \* results of iterable.map(plugin.setConfig)
  onReadySt,          \* results of iterable.map(plugin.onServiceReady)
  caught,             \* which step made start()'s catch run
  handlers,           \* process handlers installed by initService
  server,             \* this.server: "null" | "created" | "listening" | "closed"
  closeListeners,     \* once('close') listeners of the server
  shutdowns,          \* the promises of _shutdown(), counted per origin
  signals,            \* fatal events delivered to the process handlers:
                      \* how many, the first one, and whether the service
                      \* was up (init resolved, listening) when it arrived
  exitCode,           \* -1 while the process runs, else the exit status
  logs,               \* entries written to the local log sink, per level
  healthLogs,         \* messages mirrored to hydra.sendToHealthLog
  hydraShutdowns,     \* calls of hydra.shutdown()
  serviceInfo,        \* start()'s serviceInfo, set from hydra.registerService
  stack,              \* the middleware stack of app, in app.use order
  useArgs,            \* the plugins handed to the latest use()
  useSt,              \* results of plugins.map(_registerPlugin) of that call
  routes,             \* the object handed to registerRoutes
  routesList,         \* the list handed to hydra.registerRoutes
  routesResult,       \* "none" | "reported" | "TypeError"
  lateRoutes,         \* layers added to a router after registerRoutes
  defaulted,          \* the fields _init wrote into the caller's hydra block
  hydraEvents,        \* 'log' events emitted by hydra: how many, and how
                      \* many of them carried the hydra-router message
  requests,           \* the requests served by validateJwtToken and by the
                      \* error-handling middleware
  validated,          \* the calls of validateConfig with their results
  inner,              \* the arguments of the latest init(config, ...) call
                      \* and the `inner` object init built from them
  fileInit,           \* the promise init returns for a config file path
  cert,               \* jwtAuth.loadCerts: "none" | "loading" | "loaded" |
                      \* "failed"
  cluster,            \* the cluster module as the supervisor sees it
  trace               \* calls made by use() and by the init chain, in order

vars == <<registeredPlugins, config, pc, initPromise, initError, setConfigSt,
          onReadySt, caught, handlers, server, closeListeners, shutdowns,
          signals, exitCode, logs, healthLogs, hydraShutdowns, serviceInfo,
          stack, useArgs, useSt, routes, routesList, routesResult,
          lateRoutes, defaulted, hydraEvents, requests, validated, inner,
          fileInit, cert, cluster, trace>>

apiVars == <<requests, validated>>

extVars == <<inner, fileInit, cert, cluster>>


Range(s) == {s[i] : i \in 1..Len(s)}

----------------------------------------------------------------------------
(* Configuration objects.  A field is "undefined" when absent; "null"      *)
(* stands for a defined but falsy value.                                   *)

Configs ==
  { c \in [hydra : {"undefined", "null", "object"},
           redis : BOOLEAN,
           serviceName : BOOLEAN,
           serviceDescription : BOOLEAN,
           registerRoutesCallback : {"undefined", "null", "fn"},
           registerMiddlewareCallback : {"undefined", "fn"}] :
      c.hydra # "object" =>
        (~c.redis /\ ~c.serviceName /\ ~c.serviceDescription) }

NoConfig == [hydra |-> "undefined", redis |-> FALSE, serviceName |-> FALSE,
             serviceDescription |-> FALSE,
             registerRoutesCallback |-> "undefined",
             registerMiddlewareCallback |-> "undefined"]

TypeError == <<"TypeError">>

\* validateConfig pushing the nested key without its parent.
validateConfigBareKey(c) ==
  IF c.hydra = "null" THEN TypeError
  ELSE
    (IF c.hydra = "undefined" THEN <<"hydra">>
     ELSE (IF c.serviceName THEN <<>> ELSE <<"serviceName">>)
          \o (IF c.serviceDescription THEN <<>> ELSE <<"serviceDescription">>))
    \o (IF c.registerRoutesCallback = "undefined"
        THEN <<"registerRoutesCallback">> ELSE <<>>)

\* validateConfig: walks requiredMembers in key order; a nested key is
\* looked up on config[key], which throws when config[key] is null.
validateConfig(c) ==
  IF c.hydra = "null" THEN TypeError
  ELSE
    (IF c.hydra = "undefined" THEN <<"hydra">>
     ELSE (IF c.serviceName THEN <<>> ELSE <<"hydra.serviceName">>)
          \o (IF c.serviceDescription THEN <<>>
              ELSE <<"hydra.serviceDescription">>))
    \o (IF c.registerRoutesCallback = "undefined"
        THEN <<"registerRoutesCallback">> ELSE <<>>)

\* IHydraExpress.init: callbacks given as arguments are copied into `inner`
\* when truthy and override the fields of config (Object.assign).
MergeArgs(c, rrcArg, mwArg) ==
  [c EXCEPT !.registerRoutesCallback = IF rrcArg = "fn" THEN "fn" ELSE @,
            !.registerMiddlewareCallback = IF mwArg = "fn" THEN "fn" ELSE @]

\* _init without the test for the hydra block: config.hydra.redis throws.
InitCheckNoHydraTest(c) ==
  IF c.hydra # "object"
    THEN [ok |-> FALSE, msg |-> TypeError]
  ELSE IF ~c.redis
    THEN [ok |-> FALSE, msg |-> <<"Config", "missing", "redis", "block">>]
  ELSE IF Len(validateConfig(c)) # 0
    THEN [ok |-> FALSE,
          msg |-> <<"Config", "missing", "fields:">> \o validateConfig(c)]
  ELSE IF c.registerRoutesCallback # "fn"
    THEN [ok |-> FALSE,
          msg |-> <<"Config", "missing", "registerRoutesCallback", "parameter">>]
  ELSE [ok |-> TRUE, msg |-> <<>>]

\* Outcome of the validation part of _init: "ok" or the rejection message.
\* `${missingFields.join(' ')}` is the list of words after the prefix.
InitCheck(c) ==
  IF c.hydra # "object"
    THEN [ok |-> FALSE, msg |-> <<"Config", "missing", "hydra", "block">>]
  ELSE IF ~c.redis
    THEN [ok |-> FALSE, msg |-> <<"Config", "missing", "redis", "block">>]
  ELSE IF Len(validateConfig(c)) # 0
    THEN [ok |-> FALSE,
          msg |-> <<"Config", "missing", "fields:">> \o validateConfig(c)]
  ELSE IF c.registerRoutesCallback # "fn"
    THEN [ok |-> FALSE,
          msg |-> <<"Config", "missing", "registerRoutesCallback", "parameter">>]
  ELSE [ok |-> TRUE, msg |-> <<>>]

----------------------------------------------------------------------------
(* The service info hydra.registerService() resolves with.                 *)

ServiceInfos ==
  {[serviceName |-> "test-service", serviceIP |-> ip, servicePort |-> "3000"] :
     ip \in {"10.0.0.1", "10.0.0.2"}}

\* `let serviceInfo;` before the assignment.
NoServiceInfo ==
  [serviceName |-> "undefined", serviceIP |-> "undefined",
   servicePort |-> "undefined"]

----------------------------------------------------------------------------
(* Promise.series(iterable, action) =                                      *)
(*   Promise.mapSeries(iterable.map(action), ...)                          *)

HookOutcomes == {"promise", "throw"}

\* A map that goes on to the next plugin after a hook has thrown.
RECURSIVE SeriesMapPastThrow(_, _, _)
SeriesMapPastThrow(n, outs, i) ==
  IF i > n THEN <<>>
  ELSE <<IF outs[i] = "throw" THEN "threw"
         ELSE IF outs[i] = "value" THEN "resolved" ELSE "pending">>
       \o SeriesMapPastThrow(n, outs, i + 1)

\* iterable.map(action): calls the hook of every plugin, in order, at once;
\* a hook that throws ends the map.  outs[i] is what hook i does: return
\* a promise, return a plain value, or throw.  A plain value is a result
\* that mapSeries finds resolved.
RECURSIVE SeriesMap(_, _, _)
SeriesMap(n, outs, i) ==
  IF i > n THEN <<>>
  ELSE IF outs[i] = "throw" THEN <<"threw">>
  ELSE <<IF outs[i] = "value" THEN "resolved" ELSE "pending">>
       \o SeriesMap(n, outs, i + 1)

\* mapSeries that goes on after a rejected result.
RECURSIVE mapSeriesSettled(_, _)
mapSeriesSettled(st, i) ==
  IF i > Len(st) THEN "fulfilled"
  ELSE IF st[i] = "pending" THEN "pending"
  ELSE mapSeriesSettled(st, i + 1)

\* Promise.mapSeries over the mapped results: waits for them one by one.
RECURSIVE mapSeries(_, _)
mapSeries(st, i) ==
  IF i > Len(st) THEN "fulfilled"
  ELSE IF st[i] = "pending" THEN "pending"
  ELSE IF st[i] = "rejected" THEN "rejected"
  ELSE mapSeries(st, i + 1)

\* The result mapSeries is waiting on (0 when it waits on none).
RECURSIVE Awaited(_, _)
Awaited(st, i) ==
  IF i > Len(st) THEN 0
  ELSE IF st[i] = "pending" THEN i
  ELSE IF st[i] = "resolved" THEN Awaited(st, i + 1)
  ELSE 0

\* A series that is fulfilled as soon as one of its results is.
Promise_seriesAny(st) ==
  IF \E i \in 1..Len(st) : st[i] = "threw" THEN "rejected"
  ELSE IF \E i \in 1..Len(st) : st[i] = "resolved" THEN "fulfilled"
  ELSE mapSeries(st, 1)

\* State of the promise returned by Promise.series.
Promise_series(st) ==
  IF \E i \in 1..Len(st) : st[i] = "threw" THEN "rejected"
  ELSE mapSeries(st, 1)

\* The map walking the plugins from the last to the first.
HookCallsReversed(op, plugins, st) ==
  [i \in 1..Len(st) |-> [op |-> op, p |-> plugins[Len(plugins) + 1 - i]]]

\* The hook calls made by the map, as trace events.
HookCalls(op, plugins, st) ==
  [i \in 1..Len(st) |-> [op |-> op, p |-> plugins[i]]]

----------------------------------------------------------------------------
(* registerRoutes(routes) -> _registerRoutes(routes).  `routes` maps a     *)
(* base path to an express router; it is kept as the sequence of its       *)
(* entries in Object.keys order.  A router is its stack of layers: a       *)
(* layer is router-level middleware (its route property is undefined) or   *)
(* a route with a path and the methods bound on it, in Object.keys order.  *)

MaxLayers == 2

MaxLateRoutes == 1

RouteLayers ==
  {[kind |-> "middleware", path |-> "", methods |-> <<>>],
   [kind |-> "route", path |-> "/info", methods |-> <<"get">>],
   [kind |-> "route", path |-> "/say", methods |-> <<"post">>],
   [kind |-> "route", path |-> "/info", methods |-> <<"get", "post">>]}

Routers == UNION {[1..n -> RouteLayers] : n \in 0..MaxLayers}

BasePaths == {"/v1", "/v2"}

RoutesObjects ==
  {<<[routePath |-> b, stack |-> r]>> : b \in BasePaths, r \in Routers}
  \cup {<<[routePath |-> "/v1", stack |-> r1],
          [routePath |-> "/v2", stack |-> r2]>> : r1 \in Routers, r2 \in Routers}

\* The body of routes[routePath].stack.forEach: nothing for a layer with
\* no route, else `[${method}]${routePath}${routeInfo.path}` per method.
layerDescriptors(routePath, route) ==
  IF route.kind = "middleware" THEN <<>>
  ELSE [i \in 1..Len(route.methods) |->
          "[" \o route.methods[i] \o "]" \o routePath \o route.path]

RECURSIVE stackDescriptors(_, _, _)
stackDescriptors(routePath, st, i) ==
  IF i > Len(st) THEN <<>>
  ELSE layerDescriptors(routePath, st[i])
       \o stackDescriptors(routePath, st, i + 1)

\* _registerRoutes: the routesList built over every key of routes.
RECURSIVE _registerRoutes(_, _)
_registerRoutes(rs, k) ==
  IF k > Len(rs) THEN <<>>
  ELSE stackDescriptors(rs[k].routePath, rs[k].stack, 1)
       \o _registerRoutes(rs, k + 1)

\* The two ways registerRoutes is called: registerRoutes(routes) with the
\* object, and registerRoutes(routeBaseUrl, api) with a base path and one
\* router.
CallForms == {"object", "pair"}

\* IHydraExpress.registerRoutes(routeBaseUrl, api) hands both arguments to
\* _registerRoutes(routes), which reads the first one only.  Given the
\* object it builds the list and mounts every router.  Given a base path,
\* Object.keys yields the indices of its characters, routes[routePath] is a
\* character, its stack is undefined and stack.forEach throws a TypeError
\* before anything is mounted or reported (every base path is non-empty).
registerRoutes(form, rs) ==
  IF form = "pair"
    THEN [result |-> "TypeError", routesList |-> <<>>, mounted |-> 0]
    ELSE [result |-> "reported", routesList |-> _registerRoutes(rs, 1),
          mounted |-> Len(rs)]

----------------------------------------------------------------------------
(* Requests against the middleware stack.  A request for a mounted route,  *)
(* for a file under public/, or for anything else, walks the stack until a *)
(* stage answers it: express.static answers for the files it has, the      *)
(* routes for their paths, the catch-all for every path; the header and    *)
(* body-parser stages and the caller's middleware call next().             *)

Requests == {"route", "asset", "other"}

Responds(stage, req) ==
  \/ stage = "static" /\ req = "asset"
  \/ stage = "routes" /\ req = "route"
  \/ stage = "catchAll"
  \/ stage = "notFound"

RECURSIVE Dispatch(_, _, _)
Dispatch(st, req, i) ==
  IF i > Len(st) THEN "none"
  ELSE IF Responds(st[i], req) THEN st[i]
  ELSE Dispatch(st, req, i + 1)

----------------------------------------------------------------------------
(* Process-level state threaded through the handlers.                      *)

Cur == [handlers |-> handlers, server |-> server,
        closeListeners |-> closeListeners, shutdowns |-> shutdowns,
        exitCode |-> exitCode, logs |-> logs, healthLogs |-> healthLogs,
        hydraShutdowns |-> hydraShutdowns, stack |-> stack,
        trace |-> trace]

Call(s, ev) == IF s.exitCode # -1 THEN s
               ELSE [s EXCEPT !.trace = Append(@, ev)]

\* A log that mirrors every entry to the health log.
logMirrorsAll(s, type) ==
  LET level == IF type \in {"fatal", "error", "debug"} THEN type ELSE "info"
  IN IF s.exitCode # -1 THEN s
     ELSE [s EXCEPT !.logs[level] = @ + 1, !.healthLogs = @ + 1]

\* log(type, message): local sink always, health log for fatal and error.
log(s, type) ==
  LET level == IF type \in {"fatal", "error", "debug"} THEN type ELSE "info"
  IN IF s.exitCode # -1 THEN s
     ELSE [s EXCEPT !.logs[level] = @ + 1,
                    !.healthLogs = IF type \in {"fatal", "error"}
                                     THEN @ + 1 ELSE @]

\* process.exit(code): nothing runs after it.
exit(s, code) ==
  IF s.exitCode # -1 THEN s
  ELSE [s EXCEPT !.exitCode = code]

Origins == {"cleanup", "direct"}

NoListeners == [cleanup |-> 0, direct |-> 0, exit0 |-> FALSE]

\* net.Server.close(cb): cb becomes a once('close') listener; the handle is
\* released, so the server accepts no further connection.  The listeners
\* run in registration order and the graceful SIGTERM callback ("exit0")
\* ends the process, so the listeners are kept as the number of _shutdown()
\* callbacks registered ahead of the first exit0, per origin, and whether an
\* exit0 is registered; a listener behind an exit0 never runs.
server_close(s, cb) ==
  IF s.exitCode # -1 THEN s
  ELSE IF s.closeListeners.exit0 THEN [s EXCEPT !.server = "closed"]
  ELSE IF cb = "exit0"
    THEN [s EXCEPT !.closeListeners.exit0 = TRUE, !.server = "closed"]
  ELSE [s EXCEPT !.closeListeners[cb] = @ + 1, !.server = "closed"]

\* _shutdown(): this.server.close(callback) inside a promise executor; with
\* this.server still null the executor throws and the promise is rejected.
_shutdown(s, origin) ==
  IF s.exitCode # -1 THEN s
  ELSE IF s.server = "null"
    THEN [s EXCEPT !.shutdowns[origin].calls = @ + 1,
                   !.shutdowns[origin].failed = @ + 1]
  ELSE server_close([s EXCEPT !.shutdowns[origin].calls = @ + 1], origin)

\* process.emit('cleanup'): runs the listener installed by initService.
emit_cleanup(s) ==
  IF s.handlers THEN _shutdown(s, "cleanup") ELSE s

onUnhandledRejection(s) == emit_cleanup(log(s, "fatal"))

onUncaughtException(s) == emit_cleanup(log(s, "fatal"))

onSIGINT(s) == emit_cleanup(log(s, "fatal"))

\* SIGTERM with the cleanup listener only.
onSIGTERMCleanupOnly(s) == emit_cleanup(log(s, "fatal"))

\* Both SIGTERM listeners, in the order they were installed.
onSIGTERM(s) ==
  LET s1 == emit_cleanup(log(s, "fatal"))
      s2 == log(s1, "error")
  IN IF s2.server = "null" THEN onUncaughtException(s2)
     ELSE server_close(s2, "exit0")

\* One _shutdown() callback: log, then hydra.shutdown().
closeCallback(s, origin) ==
  LET s1 == log(s, "error")
  IN [s1 EXCEPT !.hydraShutdowns = @ + 1,
                !.shutdowns[origin].pending = @ + 1]

RECURSIVE closeCallbacks(_, _, _)
closeCallbacks(s, origin, n) ==
  IF n = 0 THEN s ELSE closeCallbacks(closeCallback(s, origin), origin, n - 1)

\* The 'close' event: every _shutdown() callback registered ahead of the
\* graceful SIGTERM callback runs, then that callback exits with status 0.
RunCloseListeners(s, ls) ==
  LET s1 == closeCallbacks(s, "cleanup", ls.cleanup)
      s2 == closeCallbacks(s1, "direct", ls.direct)
  IN IF ls.exit0 THEN exit(s2, 0) ELSE s2

\* A catch that goes on to resolve init's promise.
catchThenResolve(s) ==
  Call(emit_cleanup(log(s, "error")), [op |-> "resolve"])

\* start()'s catch: log the error, emit cleanup.
catch(s) == emit_cleanup(log(s, "error"))

Commit(s) ==
  /\ handlers' = s.handlers
  /\ server' = s.server
  /\ closeListeners' = s.closeListeners
  /\ shutdowns' = s.shutdowns
  /\ exitCode' = s.exitCode
  /\ logs' = s.logs
  /\ healthLogs' = s.healthLogs
  /\ hydraShutdowns' = s.hydraShutdowns
  /\ stack' = s.stack
  /\ trace' = s.trace

Alive == exitCode = -1

----------------------------------------------------------------------------
NoInner == [called |-> FALSE, config |-> NoConfig, version |-> "undefined",
            a3 |-> "undefined", a4 |-> "undefined",
            innerVersion |-> "undefined"]

NoFileInit == [st |-> "none", loaded |-> FALSE, err |-> <<>>]

NoCluster == [role |-> "none", numWorkers |-> 0, live |-> 0, exited |-> 0,
              forks |-> 0, exits |-> 0, starting |-> 0]

Init ==
  /\ registeredPlugins = <<>>
  /\ config = NoConfig
  /\ pc = "idle"
  /\ initPromise = "none"
  /\ initError = <<>>
  /\ setConfigSt = <<>>
  /\ onReadySt = <<>>
  /\ caught = "none"
  /\ handlers = FALSE
  /\ server = "null"
  /\ closeListeners = NoListeners
  /\ shutdowns = [o \in Origins |->
                   [calls |-> 0, failed |-> 0, pending |-> 0, settled |-> 0]]
  /\ signals = [count |-> 0, first |-> "none", up |-> FALSE]
  /\ exitCode = -1
  /\ logs = [l \in {"fatal", "error", "debug", "info"} |-> 0]
  /\ healthLogs = 0
  /\ hydraShutdowns = 0
  /\ serviceInfo = NoServiceInfo
  /\ stack = <<>>
  /\ useArgs = <<>>
  /\ useSt = <<>>
  /\ routes = <<>>
  /\ routesList = <<>>
  /\ routesResult = "none"
  /\ lateRoutes = <<>>
  /\ defaulted = {}
  /\ hydraEvents = [emitted |-> 0, suppressed |-> 0]
  /\ requests = <<>>
  /\ validated = <<>>
  /\ inner = NoInner
  /\ fileInit = NoFileInit
  /\ cert = "none"
  /\ cluster = NoCluster
  /\ trace = <<>>

\* use(...plugins) = Promise.series(plugins, _registerPlugin): the map
\* pushes each plugin and calls its setHydraExpress(this), one after the
\* other, until one throws; mapSeries then waits for what the hooks
\* returned.  Plugins are numbered in the order the application registers
\* them.
Use(ps, outs) ==
  LET st == SeriesMap(Len(ps), outs, 1)
  IN /\ Alive
     /\ pc = "idle"
     /\ \A i \in 1..Len(ps) : ps[i] = Len(registeredPlugins) + i
     /\ registeredPlugins' = registeredPlugins \o SubSeq(ps, 1, Len(st))
     /\ trace' = trace \o HookCalls("setHydraExpress", ps, st)
     /\ useArgs' = ps
     /\ useSt' = st
     /\ UNCHANGED <<extVars, apiVars, lateRoutes, hydraEvents, defaulted,
                    routes, routesList, routesResult, serviceInfo, config, pc,
                    initPromise, initError, setConfigSt, onReadySt,
                    caught, handlers, server, closeListeners, shutdowns,
                    signals, exitCode,
                    logs, healthLogs, hydraShutdowns, stack>>

\* The fields _init assigns in config.hydra, which is the hydra block of
\* the caller's object (Object.assign copies the top level only):
\* serviceIP, servicePort and serviceType get their defaults once the hydra
\* and redis blocks were found, ahead of validateConfig; serviceVersion is
\* set when the config is accepted.
Defaulting(c, ok) ==
  (IF c.hydra = "object" /\ c.redis
     THEN {"serviceIP", "servicePort", "serviceType"} ELSE {})
  \cup (IF ok THEN {"serviceVersion"} ELSE {})

\* A start that subscribes to hydra's log events after hydra.init.
initCallsInitFirst == <<[op |-> "hydra.init"], [op |-> "hydra.on"]>>

\* The calls on hydra of an accepted _init: hydra.on('log', ...), then
\* start() calls hydra.init(config).
initCalls == <<[op |-> "hydra.on"], [op |-> "hydra.init"]>>

\* _init(config): validation, then hydra.on('log') and start(), which
\* calls hydra.init().
_init(m) ==
  LET chk == InitCheck(m)
  IN /\ Alive
     /\ pc = "idle"
     /\ config' = m
     /\ defaulted' = Defaulting(m, chk.ok)
     /\ IF chk.ok
          THEN /\ pc' = "hydra_init"
               /\ initPromise' = "pending"
               /\ initError' = <<>>
               /\ trace' = trace \o initCalls
          ELSE /\ pc' = "rejected"
               /\ initPromise' = "rejected"
               /\ initError' = chk.msg
               /\ trace' = trace
     /\ UNCHANGED <<cert, cluster, apiVars, lateRoutes, hydraEvents,
                    useArgs, useSt, routes, routesList, routesResult,
                    registeredPlugins, serviceInfo, setConfigSt, onReadySt,
                    caught, handlers, server, closeListeners, shutdowns,
                    signals, exitCode, logs, healthLogs, hydraShutdowns,
                    stack>>

\* init(config, version, registerRoutesCallback, registerMiddlewareCallback)
\* with an object and no version -> _init(merged).
InitCall(c, rrcArg, mwArg) ==
  /\ _init(MergeArgs(c, rrcArg, mwArg))
  /\ UNCHANGED <<inner, fileInit>>

\* What init's second argument can be: absent, a function, a version.
Versions == {"undefined", "fn", "1.0.0"}

\* An init that never takes its second argument for the route callback.
initArgsNoShift(version, a3, a4) ==
  [version |-> IF version = "fn" THEN "undefined" ELSE version,
   rrc |-> a3, mw |-> a4]

\* The head of init for an object config: with a function in second
\* position the callbacks are the second and third arguments and `inner`
\* gets no version; else a truthy version goes into inner.version.
initArgs(version, a3, a4) ==
  IF version = "fn"
    THEN [version |-> "undefined", rrc |-> "fn", mw |-> a3]
    ELSE [version |-> version, rrc |-> a3, mw |-> a4]

\* init(config, version, a3, a4) with an object config:
\* super._init(Object.assign({}, config, inner)).
IHydraExpress_init(c, version, a3, a4) ==
  LET n == initArgs(version, a3, a4)
  IN /\ _init(MergeArgs(c, n.rrc, n.mw))
     /\ inner' = [called |-> TRUE, config |-> c, version |-> version,
                  a3 |-> a3, a4 |-> a4, innerVersion |-> n.version]
     /\ UNCHANGED fileInit

UnableToLoad == <<"Unable", "to", "load", "config", "from", "path">>

\* init(path, version, a3, a4) with a config file path:
\* configHelper.init(path).then(() => this.init(object, ...)).catch(...).
\* The catch sits behind the then, so it also receives what the inner
\* init rejects with, and throws 'Unable to load config' in its place.
\* loadOk: the file was loaded; c: the object it holds.
IHydraExpress_initPath(loadOk, c, version, a3, a4) ==
  LET n == initArgs(version, a3, a4)
      m == MergeArgs(c, n.rrc, n.mw)
  IN IF loadOk
       THEN /\ _init(m)
            /\ inner' = [called |-> TRUE, config |-> c, version |-> version,
                         a3 |-> a3, a4 |-> a4, innerVersion |-> n.version]
            /\ fileInit' = IF InitCheck(m).ok
                             THEN [st |-> "pending", loaded |-> TRUE,
                                   err |-> <<>>]
                             ELSE [st |-> "rejected", loaded |-> TRUE,
                                   err |-> UnableToLoad]
       ELSE /\ Alive
            /\ pc = "idle"
            /\ fileInit.st = "none"
            /\ c = NoConfig
            /\ fileInit' = [st |-> "rejected", loaded |-> FALSE,
                            err |-> UnableToLoad]
            /\ UNCHANGED <<inner, cert, cluster, apiVars, lateRoutes,
                           hydraEvents, defaulted, config, pc, initPromise,
                           initError, trace, useArgs, useSt, routes,
                           routesList, routesResult, registeredPlugins,
                           serviceInfo, setConfigSt, onReadySt, caught,
                           handlers, server, closeListeners, shutdowns,
                           signals, exitCode, logs, healthLogs,
                           hydraShutdowns, stack>>

ArgsNext ==
  \/ \E c \in Configs, v \in Versions, a3 \in {"undefined", "fn"},
        a4 \in {"undefined", "fn"} : IHydraExpress_init(c, v, a3, a4)
  \/ \E loadOk \in BOOLEAN, c \in Configs, v \in Versions,
        a3 \in {"undefined", "fn"}, a4 \in {"undefined", "fn"} :
       IHydraExpress_initPath(loadOk, c, v, a3, a4)

\* The calls of init, in each of its argument forms.
ArgsSpec == Init /\ [][ArgsNext]_vars

\* hydra.init(config) resolved: this.config = config, then
\* Promise.series(registeredPlugins, plugin => plugin.setConfig(config)).
HydraInitDone(outs) ==
  LET st == SeriesMap(Len(registeredPlugins), outs, 1)
  IN /\ Alive
     /\ pc = "hydra_init"
     /\ setConfigSt' = st
     /\ trace' = trace \o HookCalls("setConfig", registeredPlugins, st)
     /\ pc' = "set_config"
     /\ UNCHANGED <<extVars, apiVars, lateRoutes, hydraEvents, defaulted,
                 useArgs, useSt, routes, routesList, routesResult, registeredPlugins, serviceInfo, config, initPromise, initError,
                    onReadySt, caught, handlers, server, closeListeners,
                    shutdowns, signals, exitCode,
                 logs, healthLogs, hydraShutdowns, stack>>

\* hydra.init(config) rejected: the chain falls through to the catch.
HydraInitFailed ==
  /\ Alive
  /\ pc = "hydra_init"
  /\ pc' = "caught"
  /\ caught' = "hydra.init"
  /\ Commit(catch(Cur))
  /\ UNCHANGED <<extVars, apiVars, lateRoutes, hydraEvents, defaulted,
                 useArgs, useSt, routes, routesList, routesResult, registeredPlugins, serviceInfo, config, initPromise, initError,
                 setConfigSt, onReadySt, signals>>

\* The hook promise that mapSeries is waiting on settles.  mapSeries
\* subscribes to the mapped results one at a time, so the program observes
\* the settlement of a later result only once the series has reached it.
HookSettle(phase, i, ok) ==
  /\ Alive
  /\ IF phase = "setConfig"
       THEN /\ pc = "set_config"
            /\ i = Awaited(setConfigSt, 1)
            /\ setConfigSt' = [setConfigSt EXCEPT
                                 ![i] = IF ok THEN "resolved" ELSE "rejected"]
            /\ UNCHANGED onReadySt
       ELSE /\ pc = "on_ready"
            /\ i = Awaited(onReadySt, 1)
            /\ onReadySt' = [onReadySt EXCEPT
                               ![i] = IF ok THEN "resolved" ELSE "rejected"]
            /\ UNCHANGED setConfigSt
  /\ UNCHANGED <<extVars, apiVars, lateRoutes, hydraEvents, defaulted,
                 useArgs, useSt, routes, routesList, routesResult, registeredPlugins, serviceInfo, config, pc, initPromise, initError,
                 caught, handlers, server, closeListeners, shutdowns,
                 signals, exitCode,
                 logs, healthLogs, hydraShutdowns, stack, trace>>

\* .then(() => hydra.registerService())
SetConfigDone ==
  /\ Alive
  /\ pc = "set_config"
  /\ Promise_series(setConfigSt) = "fulfilled"
  /\ pc' = "register"
  /\ trace' = Append(trace, [op |-> "hydra.registerService"])
  /\ UNCHANGED <<extVars, apiVars, lateRoutes, hydraEvents, defaulted,
                 useArgs, useSt, routes, routesList, routesResult, registeredPlugins, serviceInfo, config, initPromise, initError,
                 setConfigSt, onReadySt, caught, handlers, server,
                 closeListeners, shutdowns, signals, exitCode,
                 logs, healthLogs, hydraShutdowns, stack>>

\* The app.use calls of initService() ahead of the middleware callback.
initServiceStages ==
  <<"cors", "responseTime", "processId", "helmet", "hidePoweredBy", "hsts",
    "json", "urlencoded">>

\* An initService that installs static-file serving before it calls the
\* middleware callback.
initServiceStaticFirst(s, mwThrows) ==
  LET s1 == [s EXCEPT !.handlers = TRUE,
                      !.stack = @ \o initServiceStages \o <<"static">>]
      s2 == IF config.registerMiddlewareCallback = "fn"
              THEN Call(s1, [op |-> "registerMiddlewareCallback"]) ELSE s1
  IN IF config.registerMiddlewareCallback = "fn" /\ mwThrows THEN s2
     ELSE [Call(s2, [op |-> "server.listen"]) EXCEPT
             !.server = "created",
             !.stack = @ \o (IF config.registerMiddlewareCallback = "fn"
                               THEN <<"callerMiddleware">> ELSE <<>>)]

\* initService(): installs the process handlers, calls the middleware
\* callback, creates the server and calls listen.  mwThrows: the
\* middleware callback throws, which ends initService there.
initService(s, mwThrows) ==
  LET s1 == [s EXCEPT !.handlers = TRUE, !.stack = @ \o initServiceStages]
      s2 == IF config.registerMiddlewareCallback = "fn"
              THEN Call(s1, [op |-> "registerMiddlewareCallback"]) ELSE s1
  IN IF config.registerMiddlewareCallback = "fn" /\ mwThrows THEN s2
     ELSE [Call(s2, [op |-> "server.listen"]) EXCEPT
             !.server = "created",
             !.stack = @ \o (IF config.registerMiddlewareCallback = "fn"
                               THEN <<"callerMiddleware">> ELSE <<>>)
                        \o <<"static">>]

\* registerService resolved with `info`: two log lines, initService(), then
\* Promise.series(registeredPlugins, plugin => plugin.onServiceReady()).
RegisterServiceDone(info, mwThrows, outs) ==
  LET s1 == log(log(Cur, "start"), "info")
      s2 == initService(s1, mwThrows)
      st == SeriesMap(Len(registeredPlugins), outs, 1)
  IN /\ Alive
     /\ pc = "register"
     /\ serviceInfo' = info
     /\ mwThrows => config.registerMiddlewareCallback = "fn"
     /\ IF s2.server = "null"
          THEN /\ pc' = "init_service_threw"
               /\ onReadySt' = onReadySt
               /\ Commit(s2)
          ELSE /\ pc' = "on_ready"
               /\ onReadySt' = st
               /\ Commit([s2 EXCEPT !.trace =
                    @ \o HookCalls("onServiceReady", registeredPlugins, st)])
     /\ UNCHANGED <<extVars, apiVars, lateRoutes, hydraEvents, defaulted,
                 useArgs, useSt, routes, routesList, routesResult, registeredPlugins, config, initPromise, initError,
                    setConfigSt, caught, signals>>

RegisterServiceFailed ==
  /\ Alive
  /\ pc = "register"
  /\ pc' = "caught"
  /\ caught' = "registerService"
  /\ Commit(catch(Cur))
  /\ UNCHANGED <<extVars, apiVars, lateRoutes, hydraEvents, defaulted,
                 useArgs, useSt, routes, routesList, routesResult, registeredPlugins, serviceInfo, config, initPromise, initError,
                 setConfigSt, onReadySt, signals>>

\* A listen callback that installs the fallback ahead of the routes.
listenCallbackStagesFallbackFirst ==
  <<"catchAll", "routes", "notFound", "errorHandler">>

\* The app.use calls of the listen callback: the routes mounted by the
\* route-registration callback, then the catch-all, the not-found handler
\* and the error handler.
listenCallbackStages == <<"routes", "catchAll", "notFound", "errorHandler">>

\* The listen callback: the route-registration callback runs, then the
\* catch-all, not-found and error handlers are installed.
ListenCallback ==
  /\ Alive
  /\ server = "created"
  /\ server' = "listening"
  /\ stack' = stack \o listenCallbackStages
  /\ trace' = Append(trace, [op |-> "registerRoutesCallback"])
  /\ UNCHANGED <<extVars, apiVars, lateRoutes, hydraEvents, defaulted,
                 useArgs, useSt, routes, routesList, routesResult, registeredPlugins, serviceInfo, config, pc, initPromise, initError,
                 setConfigSt, onReadySt, caught, handlers, closeListeners,
                 shutdowns, signals, exitCode,
                 logs, healthLogs, hydraShutdowns>>

ListenErrorCodes == {"EACCES", "EADDRINUSE", "OTHER"}

ErrorSyscalls == {"listen", "accept"}

\* An 'error' listener that exits on every error.
serverOnErrorAlwaysExits(s, syscall, code) == exit(log(s, "error"), 1)

\* server.on('error'): an error of another syscall than listen is
\* rethrown; a listen error with EACCES or EADDRINUSE is logged and the
\* process exits with status 1; any other listen error is rethrown.  An
\* error thrown from the listener reaches the 'uncaughtException' handler.
serverOnError(s, syscall, code) ==
  IF syscall # "listen" THEN onUncaughtException(s)
  ELSE IF code \in {"EACCES", "EADDRINUSE"} THEN exit(log(s, "error"), 1)
  ELSE onUncaughtException(s)

\* The server emits 'error': for a failed listen (the server has no handle
\* afterwards), or for a failed accept while it is listening.
ServerError(syscall, code) ==
  /\ Alive
  /\ IF syscall = "listen"
       THEN /\ server = "created"
            /\ Commit(serverOnError([Cur EXCEPT !.server = "closed"],
                                    syscall, code))
            /\ UNCHANGED signals
       ELSE /\ server = "listening"
            /\ signals.count < MaxSignals
            /\ signals' = IF signals.count = 0
                            THEN [count |-> 1, first |-> "uncaughtException",
                                  up |-> (pc = "resolved")]
                            ELSE [signals EXCEPT !.count = @ + 1]
            /\ Commit(serverOnError(Cur, syscall, code))
  /\ UNCHANGED <<extVars, apiVars, lateRoutes, hydraEvents, defaulted,
                 useArgs, useSt, routes, routesList, routesResult, registeredPlugins, serviceInfo, config, pc, initPromise,
                 initError, setConfigSt, onReadySt, caught>>

\* A chain that starts the delay without waiting for the hooks.
OnReadyDoneNoWait ==
  /\ Alive
  /\ pc = "on_ready"
  /\ server # "created"
  /\ pc' = "delay"
  /\ UNCHANGED <<extVars, apiVars, lateRoutes, hydraEvents, defaulted,
                 useArgs, useSt, routes, routesList, routesResult, registeredPlugins, serviceInfo, config, initPromise,
                 initError, setConfigSt, onReadySt, caught, handlers, server,
                 closeListeners, shutdowns, signals, exitCode,
                 logs, healthLogs, hydraShutdowns, stack, trace>>

\* .then(() => Promise.delay(2000))
OnReadyDone ==
  /\ Alive
  /\ pc = "on_ready"
  /\ server # "created"
  /\ Promise_series(onReadySt) = "fulfilled"
  /\ pc' = "delay"
  /\ UNCHANGED <<extVars, apiVars, lateRoutes, hydraEvents, defaulted,
                 useArgs, useSt, routes, routesList, routesResult, registeredPlugins, serviceInfo, config, initPromise, initError,
                 setConfigSt, onReadySt, caught, handlers, server,
                 closeListeners, shutdowns, signals, exitCode,
                 logs, healthLogs, hydraShutdowns, stack, trace>>

\* .then(() => resolve(serviceInfo))
DelayElapsed ==
  /\ Alive
  /\ pc = "delay"
  /\ pc' = "resolved"
  /\ initPromise' = "resolved"
  /\ trace' = Append(trace, [op |-> "resolve", v |-> serviceInfo])
  /\ UNCHANGED <<extVars, apiVars, lateRoutes, hydraEvents, defaulted,
                 useArgs, useSt, routes, routesList, routesResult, registeredPlugins, serviceInfo, config, initError, setConfigSt,
                 onReadySt, caught, handlers, server, closeListeners,
                 shutdowns, signals, exitCode,
                 logs, healthLogs, hydraShutdowns, stack>>

\* .catch((err) => { this.log('error', {err}); process.emit('cleanup'); })
\* reached from a failed plugin hook or a throwing initService.
ChainCatch ==
  /\ Alive
  /\ server # "created"
  /\ \/ /\ pc = "set_config"
        /\ Promise_series(setConfigSt) = "rejected"
        /\ caught' = "setConfig"
     \/ /\ pc = "on_ready"
        /\ Promise_series(onReadySt) = "rejected"
        /\ caught' = "onServiceReady"
     \/ /\ pc = "init_service_threw"
        /\ caught' = "initService"
  /\ pc' = "caught"
  /\ Commit(catch(Cur))
  /\ UNCHANGED <<extVars, apiVars, lateRoutes, hydraEvents, defaulted,
                 useArgs, useSt, routes, routesList, routesResult, registeredPlugins, serviceInfo, config, initPromise, initError,
                 setConfigSt, onReadySt, signals>>

SignalKinds == {"SIGTERM", "SIGINT", "uncaughtException", "unhandledRejection"}

\* A fatal event reaches the listeners installed by initService.
Signal(kind) ==
  /\ Alive
  /\ handlers
  /\ server # "created"
  /\ signals.count < MaxSignals
  /\ signals' = IF signals.count = 0
                  THEN [count |-> 1, first |-> kind,
                        up |-> (pc = "resolved" /\ server = "listening")]
                  ELSE [signals EXCEPT !.count = @ + 1]
  /\ Commit(CASE kind = "SIGTERM" -> onSIGTERM(Cur)
              [] kind = "SIGINT" -> onSIGINT(Cur)
              [] kind = "uncaughtException" -> onUncaughtException(Cur)
              [] OTHER -> onUnhandledRejection(Cur))
  /\ UNCHANGED <<extVars, apiVars, lateRoutes, hydraEvents, defaulted,
                 useArgs, useSt, routes, routesList, routesResult, registeredPlugins, serviceInfo, config, pc, initPromise, initError,
                 setConfigSt, onReadySt, caught>>

\* IHydraExpress.shutdown() called by the application.
Shutdown ==
  /\ Alive
  /\ server # "created"
  /\ shutdowns["direct"].calls < MaxShutdownCalls
  /\ Commit(_shutdown(Cur, "direct"))
  /\ UNCHANGED <<extVars, apiVars, lateRoutes, hydraEvents, defaulted,
                 useArgs, useSt, routes, routesList, routesResult, registeredPlugins, serviceInfo, config, pc, initPromise, initError,
                 setConfigSt, onReadySt, caught, signals>>

\* The server emits 'close' once its connections have drained.
ServerCloseEvent ==
  /\ Alive
  /\ server = "closed"
  /\ closeListeners # NoListeners
  /\ Commit(RunCloseListeners([Cur EXCEPT !.closeListeners = NoListeners],
                              closeListeners))
  /\ UNCHANGED <<extVars, apiVars, lateRoutes, hydraEvents, defaulted,
                 useArgs, useSt, routes, routesList, routesResult, registeredPlugins, serviceInfo, config, pc, initPromise, initError,
                 setConfigSt, onReadySt, caught, signals>>

\* hydra.shutdown() settles; a shutdown started by the cleanup listener
\* then exits with status 1 from its .then or its .catch.
ShutdownSettle(origin, ok) ==
  LET s1 == [Cur EXCEPT !.shutdowns[origin].pending = @ - 1,
                        !.shutdowns[origin].settled = @ + 1]
  IN /\ Alive
     /\ shutdowns[origin].pending > 0
     /\ Commit(IF origin = "cleanup" THEN exit(s1, 1) ELSE s1)
     /\ UNCHANGED <<extVars, apiVars, lateRoutes, hydraEvents, defaulted,
                 useArgs, useSt, routes, routesList, routesResult, registeredPlugins, serviceInfo, config, pc, initPromise, initError,
                    setConfigSt, onReadySt, caught, signals>>

\* The cleanup listener's .catch after _shutdown() failed at once.
CleanupRejected ==
  /\ Alive
  /\ shutdowns["cleanup"].failed > 0
  /\ Commit(exit(Cur, 1))
  /\ UNCHANGED <<extVars, apiVars, lateRoutes, hydraEvents, defaulted,
                 useArgs, useSt, routes, routesList, routesResult, registeredPlugins, serviceInfo, config, pc, initPromise, initError,
                 setConfigSt, onReadySt, caught, signals>>

Next == \/ \E p \in Plugins : Use(<<p>>, <<"value">>)
        \/ \E c \in Configs, a \in {"undefined", "fn"}, b \in {"undefined", "fn"} :
             InitCall(c, a, b)
        \/ \E outs \in [1..Len(registeredPlugins) -> HookOutcomes] :
             HydraInitDone(outs)
        \/ HydraInitFailed
        \/ \E ph \in {"setConfig", "onServiceReady"}, i \in 1..MaxPlugins,
              ok \in BOOLEAN : HookSettle(ph, i, ok)
        \/ SetConfigDone
        \/ \E info \in ServiceInfos, mwThrows \in BOOLEAN,
              outs \in [1..Len(registeredPlugins) -> HookOutcomes] :
             RegisterServiceDone(info, mwThrows, outs)
        \/ RegisterServiceFailed
        \/ ListenCallback
        \/ \E syscall \in ErrorSyscalls, code \in ListenErrorCodes :
             ServerError(syscall, code)
        \/ OnReadyDone
        \/ DelayElapsed
        \/ ChainCatch
        \/ \E kind \in SignalKinds : Signal(kind)
        \/ Shutdown
        \/ ServerCloseEvent
        \/ \E o \in Origins, ok \in BOOLEAN : ShutdownSettle(o, ok)
        \/ CleanupRejected

Spec == Init /\ [][Next]_vars

\* use() called once init() was called: _registerPlugin has no test of
\* the instance's state, so the plugin is pushed and bound as before.
LateUse(ps, outs) ==
  LET st == SeriesMap(Len(ps), outs, 1)
  IN /\ Alive
     /\ pc # "idle"
     /\ \A i \in 1..Len(ps) : ps[i] = Len(registeredPlugins) + i
     /\ registeredPlugins' = registeredPlugins \o SubSeq(ps, 1, Len(st))
     /\ trace' = trace \o HookCalls("setHydraExpress", ps, st)
     /\ useArgs' = ps
     /\ useSt' = st
     /\ UNCHANGED <<extVars, apiVars, lateRoutes, hydraEvents, defaulted,
                    routes, routesList, routesResult, serviceInfo, config, pc,
                    initPromise, initError, setConfigSt, onReadySt,
                    caught, handlers, server, closeListeners, shutdowns,
                    signals, exitCode,
                    logs, healthLogs, hydraShutdowns, stack>>

LateUseNext ==
  \/ Next
  \/ \E p \in Plugins : LateUse(<<p>>, <<"value">>)

MaxHydraLogs == 3

\* The entries hydra emits on 'log': a type and, in msg, the text.
LogEntries ==
  {[type |-> t, msg |-> m] :
     t \in {"fatal", "error", "info"},
     m \in {"", "redis connection error",
            "Unavailable hydra-router instances"}}

\* The listener of hydra.on('log'): an entry whose msg holds 'Unavailable
\* hydra-router instances' is dropped, every other one goes to log().
onHydraLog(s, entry) ==
  IF entry.msg = "Unavailable hydra-router instances" THEN s
  ELSE log(s, entry.type)

\* A log() that lets hydra emit a log event for what it writes to the
\* health log.
suppressLogEmitOff == FALSE

\* let suppressLogEmit = true, the third argument of every
\* hydra.sendToHealthLog call of log().
suppressLogEmit == TRUE

\* The log events hydra emits for one log(type, ...) call: log() calls
\* hydra.sendToHealthLog(severity, message, suppressLogEmit) for fatal and
\* error entries, and hydra emits the entry on 'log' unless told to
\* suppress it.
LogEmits(type) ==
  IF type \in {"fatal", "error"} /\ ~suppressLogEmit THEN 1 ELSE 0

\* hydra emits a log entry, which it does from the call of hydra.init
\* on; the listener runs if it has been subscribed.
HydraLog(entry) ==
  LET subscribed == \E i \in 1..Len(trace) : trace[i].op = "hydra.on"
      s == IF subscribed THEN onHydraLog(Cur, entry) ELSE Cur
  IN /\ Alive
     /\ \E i \in 1..Len(trace) : trace[i].op = "hydra.init"
     /\ hydraEvents.emitted < MaxHydraLogs
     /\ hydraEvents' =
          [emitted |-> hydraEvents.emitted + 1
              + (IF s # Cur THEN LogEmits(entry.type) ELSE 0),
           suppressed |-> hydraEvents.suppressed
              + (IF subscribed /\ s = Cur THEN 1 ELSE 0)]
     /\ Commit(s)
     /\ UNCHANGED <<extVars, apiVars, lateRoutes, defaulted, useArgs, useSt, routes,
                    routesList, routesResult, registeredPlugins, serviceInfo,
                    config, pc, initPromise, initError, setConfigSt,
                    onReadySt, caught, signals>>

LogNext ==
  \/ \E c \in Configs, a \in {"undefined", "fn"}, b \in {"undefined", "fn"} :
       InitCall(c, a, b)
  \/ \E entry \in LogEntries : HydraLog(entry)

\* init() and the log entries hydra emits while hydra.init is under way.
LogSpec == Init /\ [][LogNext]_vars

----------------------------------------------------------------------------
(* The variant of _init and start() that loads the JWT public certificate  *)
(* (index.js 877-929 and 1032-1051), with no plugin registered.            *)

CantLoadCert == <<"Can't", "load", "public", "cert">>

\* _init(config) of that variant: the same validation, hydra.on('log'),
\* the setConfig series over the (empty) registry, and then
\* jwtAuth.loadCerts when config.jwtPublicCert is set, else start(), whose
\* first call is hydra.init.
JwtInit(c, jwtPublicCert) ==
  LET chk == InitCheck(c)
  IN /\ Alive
     /\ pc = "idle"
     /\ registeredPlugins = <<>>
     /\ config' = c
     /\ defaulted' = Defaulting(c, chk.ok)
     /\ IF ~chk.ok
          THEN /\ pc' = "rejected"
               /\ initPromise' = "rejected"
               /\ initError' = chk.msg
               /\ UNCHANGED <<trace, cert>>
          ELSE /\ initPromise' = "pending"
               /\ initError' = <<>>
               /\ IF jwtPublicCert
                    THEN /\ pc' = "load_cert"
                         /\ cert' = "loading"
                         /\ trace' = Append(trace, [op |-> "hydra.on"])
                    ELSE /\ pc' = "hydra_init"
                         /\ cert' = cert
                         /\ trace' = trace \o <<[op |-> "hydra.on"],
                                                [op |-> "hydra.init"]>>
     /\ UNCHANGED <<inner, fileInit, cluster, apiVars, lateRoutes,
                    hydraEvents, useArgs, useSt, routes, routesList,
                    routesResult, registeredPlugins, serviceInfo,
                    setConfigSt, onReadySt, caught, handlers, server,
                    closeListeners, shutdowns, signals, exitCode, logs,
                    healthLogs, hydraShutdowns, stack>>

\* jwtAuth.loadCerts settles.  Its .catch rejects init's promise and
\* returns, so the chain goes on to .then(() => this.start(...)) whether
\* the certificate was loaded or not.
LoadCertsSettle(ok) ==
  /\ Alive
  /\ pc = "load_cert"
  /\ cert' = IF ok THEN "loaded" ELSE "failed"
  /\ initPromise' = IF ok THEN initPromise ELSE "rejected"
  /\ initError' = IF ok THEN initError ELSE CantLoadCert
  /\ pc' = "hydra_init"
  /\ trace' = Append(trace, [op |-> "hydra.init"])
  /\ UNCHANGED <<inner, fileInit, cluster, apiVars, lateRoutes, hydraEvents,
                 defaulted, config, useArgs, useSt, routes, routesList,
                 routesResult, registeredPlugins, serviceInfo, setConfigSt,
                 onReadySt, caught, handlers, server, closeListeners,
                 shutdowns, signals, exitCode, logs, healthLogs,
                 hydraShutdowns, stack>>

\* hydra.init resolved: this.config = config; hydra.registerService().
JwtHydraInitDone ==
  /\ Alive
  /\ pc = "hydra_init"
  /\ pc' = "register"
  /\ trace' = Append(trace, [op |-> "hydra.registerService"])
  /\ UNCHANGED <<extVars, apiVars, lateRoutes, hydraEvents, defaulted,
                 config, initPromise, initError, useArgs, useSt, routes,
                 routesList, routesResult, registeredPlugins, serviceInfo,
                 setConfigSt, onReadySt, caught, handlers, server,
                 closeListeners, shutdowns, signals, exitCode, logs,
                 healthLogs, hydraShutdowns, stack>>

\* initService() of that variant: the process handlers, the middleware,
\* the middleware callback, static serving, createServer and listen.
JwtInitService(s) ==
  LET s1 == [s EXCEPT
               !.handlers = TRUE,
               !.stack = @ \o <<"cors", "responseTime", "processId",
                                "helmet", "hidePoweredBy", "hsts",
                                "urlencoded">>]
      s2 == IF config.registerMiddlewareCallback = "fn"
              THEN [Call(s1, [op |-> "registerMiddlewareCallback"]) EXCEPT
                      !.stack = Append(@, "callerMiddleware")]
              ELSE s1
  IN [Call(s2, [op |-> "server.listen"]) EXCEPT
        !.server = "created", !.stack = Append(@, "static")]

\* hydra.registerService resolved: two log lines, initService(), the
\* onServiceReady series over the (empty) registry.
JwtRegisterServiceDone(info) ==
  /\ Alive
  /\ pc = "register"
  /\ pc' = "delay"
  /\ serviceInfo' = info
  /\ Commit(JwtInitService(log(log(Cur, "start"), "info")))
  /\ UNCHANGED <<extVars, apiVars, lateRoutes, hydraEvents, defaulted,
                 config, initPromise, initError, useArgs, useSt, routes,
                 routesList, routesResult, registeredPlugins, setConfigSt,
                 onReadySt, caught, signals>>

\* hydra.init or hydra.registerService rejected: the chain's catch logs.
JwtStartFailed ==
  /\ Alive
  /\ pc \in {"hydra_init", "register"}
  /\ pc' = "caught"
  /\ caught' = IF pc = "hydra_init" THEN "hydra.init" ELSE "registerService"
  /\ Commit(log(Cur, "error"))
  /\ UNCHANGED <<extVars, apiVars, lateRoutes, hydraEvents, defaulted,
                 config, initPromise, initError, useArgs, useSt, routes,
                 routesList, routesResult, registeredPlugins, serviceInfo,
                 setConfigSt, onReadySt, signals>>

\* Promise.delay(2000) elapsed: resolve(serviceInfo), which does nothing
\* to a promise that was rejected.
JwtDelayElapsed ==
  /\ Alive
  /\ pc = "delay"
  /\ pc' = "done"
  /\ initPromise' = IF initPromise = "pending" THEN "resolved"
                    ELSE initPromise
  /\ trace' = Append(trace, [op |-> "resolve", v |-> serviceInfo])
  /\ UNCHANGED <<extVars, apiVars, lateRoutes, hydraEvents, defaulted,
                 config, initError, useArgs, useSt, routes, routesList,
                 routesResult, registeredPlugins, serviceInfo, setConfigSt,
                 onReadySt, caught, handlers, server, closeListeners,
                 shutdowns, signals, exitCode, logs, healthLogs,
                 hydraShutdowns, stack>>

JwtNext ==
  \/ \E c \in Configs, jwtPublicCert \in BOOLEAN : JwtInit(c, jwtPublicCert)
  \/ \E ok \in BOOLEAN : LoadCertsSettle(ok)
  \/ JwtHydraInitDone
  \/ \E info \in ServiceInfos : JwtRegisterServiceDone(info)
  \/ JwtStartFailed
  \/ JwtDelayElapsed

\* init with or without config.jwtPublicCert, up to the listener.
JwtSpec == Init /\ [][JwtNext]_vars

----------------------------------------------------------------------------
(* start() of the variant with a cluster mode (index.js 314-381).          *)

\* os.cpus().length
NumCpus == 2

\* config.processes ranges over 0..MaxProcesses; 0 is "not set".
MaxProcesses == 3

MaxWorkerExits == 3

ClusterFrame ==
  UNCHANGED <<inner, fileInit, cert, apiVars, lateRoutes, hydraEvents,
              defaulted, config, initError, useArgs, useSt, routes,
              routesList, routesResult, registeredPlugins, serviceInfo,
              setConfigSt, onReadySt, caught, handlers, closeListeners,
              shutdowns, signals, exitCode, hydraShutdowns,
              stack>>

\* start(): without config.cluster, and in a worker, hydra.init is
\* called; in the master, numWorkers = config.processes || os.cpus().length
\* workers are forked, the 'online' and 'exit' listeners are installed and
\* init resolves with {}.
ClusterStart(clusterFlag, isMaster, processes) ==
  LET numWorkers == IF processes = 0 THEN NumCpus ELSE processes
  IN /\ Alive
     /\ cluster.role = "none"
     /\ pc = "idle"
     /\ IF clusterFlag /\ isMaster
          THEN /\ cluster' = [role |-> "master", numWorkers |-> numWorkers,
                              live |-> numWorkers, exited |-> 0,
                              forks |-> numWorkers, exits |-> 0,
                              starting |-> numWorkers]
               /\ initPromise' = "resolved"
               /\ pc' = "master"
               /\ UNCHANGED trace
          ELSE /\ cluster' = [cluster EXCEPT
                                !.role = IF clusterFlag THEN "worker"
                                         ELSE "single"]
               /\ initPromise' = "pending"
               /\ pc' = "hydra_init"
               /\ trace' = Append(trace, [op |-> "hydra.init"])
     /\ UNCHANGED <<logs, healthLogs, server>>
     /\ ClusterFrame

\* A worker process ends; cluster will emit 'exit' for it.
WorkerDies ==
  /\ Alive
  /\ cluster.role = "master"
  /\ cluster.live > 0
  /\ cluster.exits < MaxWorkerExits
  /\ cluster' = [cluster EXCEPT !.live = @ - 1, !.exited = @ + 1,
                                !.exits = @ + 1]
  /\ UNCHANGED <<logs, healthLogs, server, trace, pc, initPromise>>
  /\ ClusterFrame

\* An 'exit' listener that only logs.
ClusterOnExitLogOnly ==
  /\ Alive
  /\ cluster.role = "master"
  /\ cluster.exited > 0
  /\ cluster' = [cluster EXCEPT !.exited = @ - 1]
  /\ logs' = log(log(Cur, "error"), "info").logs
  /\ healthLogs' = log(log(Cur, "error"), "info").healthLogs
  /\ UNCHANGED <<server, trace, pc, initPromise>>
  /\ ClusterFrame

\* cluster.on('exit'): two log lines and cluster.fork().
ClusterOnExit ==
  /\ Alive
  /\ cluster.role = "master"
  /\ cluster.exited > 0
  /\ cluster' = [cluster EXCEPT !.exited = @ - 1, !.live = @ + 1,
                                !.forks = @ + 1, !.starting = @ + 1]
  /\ logs' = log(log(Cur, "error"), "info").logs
  /\ healthLogs' = log(log(Cur, "error"), "info").healthLogs
  /\ UNCHANGED <<server, trace, pc, initPromise>>
  /\ ClusterFrame

\* cluster.on('online'): a forked worker runs; one log line.
ClusterOnOnline ==
  /\ Alive
  /\ cluster.role = "master"
  /\ cluster.starting > 0
  /\ cluster' = [cluster EXCEPT !.starting = @ - 1]
  /\ logs' = log(Cur, "info").logs
  /\ healthLogs' = log(Cur, "info").healthLogs
  /\ UNCHANGED <<server, trace, pc, initPromise>>
  /\ ClusterFrame

\* hydra.init resolved in a worker or in single-process mode:
\* hydra.registerService().
ClusterHydraInitDone ==
  /\ Alive
  /\ cluster.role \in {"worker", "single"}
  /\ pc = "hydra_init"
  /\ pc' = "register"
  /\ trace' = Append(trace, [op |-> "hydra.registerService"])
  /\ UNCHANGED <<cluster, logs, healthLogs, server, initPromise>>
  /\ ClusterFrame

\* hydra.registerService resolved: initWorker() creates the server and
\* listens (single-process mode logs two lines first).
ClusterRegisterServiceDone ==
  /\ Alive
  /\ cluster.role \in {"worker", "single"}
  /\ pc = "register"
  /\ pc' = "delay"
  /\ server' = "created"
  /\ trace' = Append(trace, [op |-> "server.listen"])
  /\ logs' = IF cluster.role = "single"
               THEN log(log(Cur, "start"), "info").logs ELSE logs
  /\ UNCHANGED healthLogs
  /\ UNCHANGED <<cluster, initPromise>>
  /\ ClusterFrame

ClusterNext ==
  \/ \E clusterFlag \in BOOLEAN, isMaster \in BOOLEAN,
        processes \in 0..MaxProcesses :
       ClusterStart(clusterFlag, isMaster, processes)
  \/ WorkerDies
  \/ ClusterOnExit
  \/ ClusterOnOnline
  \/ ClusterHydraInitDone
  \/ ClusterRegisterServiceDone

\* start() in single-process mode, in the master and in a worker.
ClusterSpec == Init /\ [][ClusterNext]_vars

\* The instance with use() callable at any time.
LateUseSpec == Init /\ [][LateUseNext]_vars

MaxUsePlugins == 4

----------------------------------------------------------------------------
(* The request-level middleware: validateJwtToken() and the terminal       *)
(* error handler installed by the listen callback; and validateConfig      *)
(* called on its own.                                                      *)

MaxRequests == 2

HTTP_UNAUTHORIZED == 401
HTTP_NOT_FOUND == 404
HTTP_SERVER_ERROR == 500

\* req.headers.authorization as authHeader.split(' ') sees it: the words
\* between single spaces.  <<>> is a request without the header.
AuthHeaders ==
  {<<>>, <<"Bearer">>, <<"Bearer", "">>, <<"Bearer", "tokenA">>,
   <<"tokenA">>, <<"Bearer", "tokenA", "tokenB">>, <<"Bearer", "", "tokenA">>}

\* err.status of the error handed to the error handler; 0 is an error
\* without a status.
ErrStatuses == {0, 400, 404, 500, 503}

\* authHeader.split(' ')[1]; "" when there is no second word.
splitToken(header) == IF Len(header) >= 2 THEN header[2] ELSE ""

\* What jwtAuth.verifyToken resolves with for an accepted token.
Decoded(token) == "claims of " \o token

Unauthorized(reason) ==
  [status |-> HTTP_UNAUTHORIZED, body |-> [result |-> [reason |-> reason]]]

NewRequest(kind) ==
  [kind |-> kind, header |-> <<>>, errStatus |-> 0, phase |-> "done",
   responses |-> <<>>, nextCalls |-> 0, authToken |-> "undefined",
   verdict |-> "none", fatal |-> 0]

\* The middleware returned by _validateJwtToken(), up to the call of
\* jwtAuth.verifyToken: 401 without the header or without a token.
validateJwtToken(header) ==
  LET r == [NewRequest("jwt") EXCEPT !.header = header]
  IN IF header = <<>>
       THEN [r EXCEPT !.responses = <<Unauthorized("Invalid token")>>]
     ELSE IF splitToken(header) # ""
       THEN [r EXCEPT !.phase = "verifying"]
     ELSE [r EXCEPT !.responses = <<Unauthorized("Invalid token")>>]

\* A middleware that lets the request through whatever the verifier says.
verifyTokenSettledLenient(r, ok) ==
  [r EXCEPT !.phase = "done",
            !.verdict = IF ok THEN "accepted" ELSE "rejected",
            !.authToken = Decoded(splitToken(r.header)),
            !.nextCalls = @ + 1]

\* The .then and .catch of jwtAuth.verifyToken(token).
verifyTokenSettled(r, ok) ==
  IF ok
    THEN [r EXCEPT !.phase = "done", !.verdict = "accepted",
                   !.authToken = Decoded(splitToken(r.header)),
                   !.nextCalls = @ + 1]
    ELSE [r EXCEPT !.phase = "done", !.verdict = "rejected",
                   !.responses = Append(@, Unauthorized("err.message"))]

\* An error handler that logs every error and answers with its message.
errorHandlerVerbose(status) ==
  LET errCode == IF status = 0 THEN HTTP_SERVER_ERROR ELSE status
  IN [NewRequest("error") EXCEPT
        !.errStatus = status,
        !.fatal = 1,
        !.responses = <<[status |-> errCode,
                         body |-> [code |-> errCode, message |-> "err.message"]]>>]

\* The error-handling middleware: errCode = err.status || 500, a fatal log
\* entry unless err.status is 404, and res.status(errCode).json({code}).
errorHandler(status) ==
  LET errCode == IF status = 0 THEN HTTP_SERVER_ERROR ELSE status
  IN [NewRequest("error") EXCEPT
        !.errStatus = status,
        !.fatal = IF status # HTTP_NOT_FOUND THEN 1 ELSE 0,
        !.responses = <<[status |-> errCode, body |-> [code |-> errCode]]>>]

ApiUnchanged ==
  UNCHANGED <<extVars, registeredPlugins, config, pc, initPromise, initError,
              setConfigSt, onReadySt, caught, handlers, server,
              closeListeners, shutdowns, signals, exitCode, logs, healthLogs,
              hydraShutdowns, serviceInfo, stack, useArgs, useSt, routes,
              routesList, routesResult, lateRoutes, defaulted, hydraEvents,
              trace>>

\* A request reaches the validateJwtToken middleware.
JwtRequest(header) ==
  /\ Len(requests) < MaxRequests
  /\ requests' = Append(requests, validateJwtToken(header))
  /\ UNCHANGED validated
  /\ ApiUnchanged

\* jwtAuth.verifyToken settles for request i.
JwtVerifySettle(i, ok) ==
  /\ i \in 1..Len(requests)
  /\ requests[i].phase = "verifying"
  /\ requests' = [requests EXCEPT ![i] = verifyTokenSettled(@, ok)]
  /\ UNCHANGED validated
  /\ ApiUnchanged

\* An error with the given status reaches the error-handling middleware.
ErrorRequest(status) ==
  /\ Len(requests) < MaxRequests
  /\ requests' = Append(requests, errorHandler(status))
  /\ UNCHANGED validated
  /\ ApiUnchanged

\* validateConfig(config) called on any config object.
ValidateConfigCall(c) ==
  /\ validated = <<>>
  /\ validated' = <<[config |-> c, result |-> validateConfig(c)]>>
  /\ UNCHANGED requests
  /\ ApiUnchanged

ApiNext ==
  \/ \E h \in AuthHeaders : JwtRequest(h)
  \/ \E i \in 1..MaxRequests, ok \in BOOLEAN : JwtVerifySettle(i, ok)
  \/ \E st \in ErrStatuses : ErrorRequest(st)
  \/ \E c \in Configs : ValidateConfigCall(c)

\* The middleware and validateConfig, each call on its own.
ApiSpec == Init /\ [][ApiNext]_vars

\* What a setHydraExpress hook does: return nothing (as the hook of
\* HydraExpressPlugin does), return a promise, or throw.
BindOutcomes == {"value", "promise", "throw"}

\* The plugins of one use() call: the next n plugins.
UseArgs ==
  {[i \in 1..n |-> Len(registeredPlugins) + i] :
     n \in 1..(MaxUsePlugins - Len(registeredPlugins))}

\* The promise that mapSeries is waiting on, of those that the hooks of
\* the latest use() returned, settles.
UseHookSettle(i, ok) ==
  /\ Alive
  /\ i = Awaited(useSt, 1)
  /\ useSt' = [useSt EXCEPT ![i] = IF ok THEN "resolved" ELSE "rejected"]
  /\ UNCHANGED <<extVars, apiVars, lateRoutes, hydraEvents, defaulted,
                 useArgs, routes, routesList, routesResult,
                 registeredPlugins, serviceInfo, config, pc, initPromise,
                 initError, setConfigSt, onReadySt, caught, handlers, server,
                 closeListeners, shutdowns, signals, exitCode, logs,
                 healthLogs, hydraShutdowns, stack, trace>>

UseNext ==
  \/ \E ps \in UseArgs : \E outs \in [1..Len(ps) -> BindOutcomes] :
       Use(ps, outs)
  \/ \E i \in 1..MaxUsePlugins, ok \in BOOLEAN : UseHookSettle(i, ok)

\* The calls of use() ahead of init.
UseSpec == Init /\ [][UseNext]_vars

\* registerRoutes called on a fresh instance, in either form.
RegisterRoutes(form, rs) ==
  LET r == registerRoutes(form, rs)
  IN /\ Alive
     /\ routesResult = "none"
     /\ form = "pair" => Len(rs) = 1
     /\ routes' = rs
     /\ routesList' = r.routesList
     /\ routesResult' = r.result
     /\ stack' = stack \o [k \in 1..r.mounted |-> "routes"]
     /\ trace' = IF r.result = "reported"
                   THEN Append(trace, [op |-> "hydra.registerRoutes"])
                   ELSE trace
     /\ UNCHANGED <<extVars, apiVars, lateRoutes, hydraEvents, defaulted,
                    registeredPlugins, serviceInfo, config, pc, initPromise,
                    initError, setConfigSt, onReadySt, caught, handlers,
                    server, closeListeners, shutdowns, signals, exitCode,
                    logs, healthLogs, hydraShutdowns, useArgs, useSt>>

\* The routers handed to registerRoutes as they are now: the stacks of the
\* call plus the layers added since.
RECURSIVE CurrentRouters(_, _, _)
CurrentRouters(rs, late, i) ==
  IF i > Len(late) THEN rs
  ELSE CurrentRouters(
         [rs EXCEPT ![late[i].router].stack = Append(@, late[i].layer)],
         late, i + 1)

\* A router that reports its routes again whenever one is added.
AddRouteReporting(k, layer) ==
  /\ routesResult = "reported"
  /\ k \in 1..Len(routes)
  /\ Len(lateRoutes) < MaxLateRoutes
  /\ lateRoutes' = Append(lateRoutes, [router |-> k, layer |-> layer])
  /\ routesList' = _registerRoutes(CurrentRouters(routes, lateRoutes', 1), 1)
  /\ trace' = Append(trace, [op |-> "hydra.registerRoutes"])
  /\ UNCHANGED <<extVars, apiVars, hydraEvents, defaulted, routes, routesResult, stack,
                 registeredPlugins, serviceInfo, config, pc, initPromise,
                 initError, setConfigSt, onReadySt, caught, handlers,
                 server, closeListeners, shutdowns, signals, exitCode,
                 logs, healthLogs, hydraShutdowns, useArgs, useSt>>

\* The caller adds a layer to router k after registerRoutes returned.  The
\* router is the object app.use mounted, so the layer is served; no code
\* of _registerRoutes runs again.
AddRoute(k, layer) ==
  /\ routesResult = "reported"
  /\ k \in 1..Len(routes)
  /\ Len(lateRoutes) < MaxLateRoutes
  /\ lateRoutes' = Append(lateRoutes, [router |-> k, layer |-> layer])
  /\ UNCHANGED <<extVars, apiVars, hydraEvents, defaulted, routes, routesList,
                 routesResult, stack, trace,
                 registeredPlugins, serviceInfo, config, pc, initPromise,
                 initError, setConfigSt, onReadySt, caught, handlers,
                 server, closeListeners, shutdowns, signals, exitCode,
                 logs, healthLogs, hydraShutdowns, useArgs, useSt>>

RoutesNext ==
  \/ \E form \in CallForms, rs \in RoutesObjects : RegisterRoutes(form, rs)
  \/ \E k \in 1..2, layer \in RouteLayers : AddRoute(k, layer)

\* The calls of registerRoutes, each on its own.
RoutesSpec == Init /\ [][RoutesNext]_vars

\* registerRoutes(routes) called once the listen callback has run, that
\* is, behind the catch-all: _registerRoutes tests nothing and appends the
\* routers to the stack.
LateRegisterRoutes(rs) ==
  /\ server = "listening"
  /\ RegisterRoutes("object", rs)

LateRoutesNext ==
  \/ Next
  \/ \E rs \in {r \in RoutesObjects : Len(r) = 1 /\ Len(r[1].stack) = 1} :
       LateRegisterRoutes(rs)

\* The instance with registerRoutes callable after the listener started.
LateRoutesSpec == Init /\ [][LateRoutesNext]_vars

\* The http server emits 'close' once close() was called and its
\* connections have ended.
FairSpec == Spec /\ WF_vars(ServerCloseEvent)

\* Every promise of the chain settles, every timer fires, every event
\* that can be delivered is delivered: no step that stays possible is put
\* off for ever.
ChainFairSpec == Spec /\ WF_vars(Next)

----------------------------------------------------------------------------
(* Properties.                                                             *)

Ops(op) == {i \in 1..Len(trace) : trace[i].op = op}

Called(op) == Ops(op) # {}

\* The plugins on which hook `op` was called, in call order.
HookSeq(op) ==
  LET calls == SelectSeq(trace, LAMBDA e : e.op = op)
  IN [i \in 1..Len(calls) |-> calls[i].p]

IsPrefix(a, b) == Len(a) <= Len(b) /\ a = SubSeq(b, 1, Len(a))

Threw(st) == \E i \in 1..Len(st) : st[i] = "threw"

HookFailed(st) == \E i \in 1..Len(st) : st[i] \in {"threw", "rejected"}

\* C1: during init the route-registration callback is invoked before any
\* plugin's onServiceReady hook.
C1_RoutesBeforeOnReady ==
  \A i \in Ops("onServiceReady") :
    \E j \in Ops("registerRoutesCallback") : j < i

\* C2: plugin hooks are awaited one at a time: the hook of the plugin at
\* position i+1 is not invoked until the hook at position i has settled.
C2_OneHookAtATime ==
  /\ \A i \in 1..Len(setConfigSt) :
       i + 1 <= Len(setConfigSt) => setConfigSt[i] \in {"resolved", "rejected"}
  /\ \A i \in 1..Len(onReadySt) :
       i + 1 <= Len(onReadySt) => onReadySt[i] \in {"resolved", "rejected"}

\* C3: setConfig hooks are invoked in registration order, onServiceReady
\* hooks are invoked in registration order, on every registered plugin
\* unless a hook throws, and every setConfig call precedes every
\* onServiceReady call.
C3_HookOrder ==
  /\ IsPrefix(HookSeq("setConfig"), registeredPlugins)
  /\ IsPrefix(HookSeq("onServiceReady"), registeredPlugins)
  /\ \A i \in Ops("setConfig"), j \in Ops("onServiceReady") : i < j
  /\ (Called("hydra.registerService") \/ pc = "set_config") /\ ~Threw(setConfigSt)
       => HookSeq("setConfig") = registeredPlugins
  /\ Called("server.listen") /\ ~Threw(onReadySt)
       => HookSeq("onServiceReady") = registeredPlugins

C3_Witness ==
  /\ Len(HookSeq("setConfig")) = 2
  /\ Len(HookSeq("onServiceReady")) = 2

\* C4: for a config without the hydra block init rejects with the config
\* error and no plugin hook and no discovery-client call happens, whatever
\* plugins are registered.
C4_NoHydraBlock ==
  (pc # "idle" /\ config.hydra # "object") =>
    /\ initPromise = "rejected"
    /\ initError = <<"Config", "missing", "hydra", "block">>
    /\ trace = [i \in 1..Len(registeredPlugins) |->
                  [op |-> "setHydraExpress", p |-> registeredPlugins[i]]]
    /\ hydraShutdowns = 0
    /\ healthLogs = 0

C4_Witness ==
  /\ pc = "rejected"
  /\ config.hydra = "undefined"
  /\ Len(registeredPlugins) = 2

\* The required field paths that a config lacks.
Missing(c) ==
  (IF c.hydra = "undefined" THEN {"hydra"} ELSE {})
  \cup (IF c.hydra = "object" /\ ~c.serviceName
          THEN {"hydra.serviceName"} ELSE {})
  \cup (IF c.hydra = "object" /\ ~c.serviceDescription
          THEN {"hydra.serviceDescription"} ELSE {})
  \cup (IF c.registerRoutesCallback = "undefined"
          THEN {"registerRoutesCallback"} ELSE {})

FieldPaths == {"hydra", "hydra.serviceName", "hydra.serviceDescription",
               "registerRoutesCallback"}

\* The field paths a rejection message names.
NamedFields(msg) == Range(msg) \cap FieldPaths

\* C5 as claimed: for every config missing registerRoutesCallback init
\* rejects with a message naming exactly the missing field paths.
C5_NamesMissingFields ==
  (pc # "idle" /\ config.registerRoutesCallback = "undefined") =>
    /\ initPromise = "rejected"
    /\ NamedFields(initError) = Missing(config)

\* C5 amended: for every config that has the hydra block with its redis
\* block and lacks a required field, init rejects with 'Config missing
\* fields:' followed by exactly the missing field paths, each once.
C5_NamesMissingFieldsWithBlocks ==
  (pc # "idle" /\ config.hydra = "object" /\ config.redis
     /\ Missing(config) # {}) =>
    /\ initPromise = "rejected"
    /\ SubSeq(initError, 1, 3) = <<"Config", "missing", "fields:">>
    /\ Range(SubSeq(initError, 4, Len(initError))) = Missing(config)
    /\ Len(initError) = 3 + Cardinality(Missing(config))
    /\ Missing(config) = {"registerRoutesCallback"} =>
         initError = <<"Config", "missing", "fields:", "registerRoutesCallback">>

C5_Witness ==
  /\ pc = "rejected"
  /\ config.hydra = "object"
  /\ config.redis
  /\ Missing(config) = {"registerRoutesCallback"}

\* A _shutdown() promise started by the cleanup listener has settled, or
\* was rejected at once.
CleanupShutdownSettled ==
  shutdowns["cleanup"].settled > 0 \/ shutdowns["cleanup"].failed > 0

\* C6: discovery deregistration is not started until the listener's close
\* has completed, and after a termination signal or fatal error the process
\* does not exit until discovery deregistration has settled.
C6_ShutdownOrdered ==
  /\ hydraShutdowns > 0 => server = "closed"
  /\ (exitCode # -1 /\ signals.count > 0) => CleanupShutdownSettled

\* C7: over any sequence of shutdown calls, direct or through the cleanup
\* event, hydra.shutdown() is invoked at most once.
C7_SingleDeregistration == hydraShutdowns <= 1

\* C8: once the process handlers are installed, every uncaught exception,
\* unhandled rejection, SIGINT and SIGTERM is logged at fatal severity and
\* funnelled into the cleanup event, whose listener invokes shutdown and
\* exits with a non-zero status once shutdown settles or fails.
C8_FatalPathExitsNonZero ==
  /\ logs["fatal"] >= signals.count
  /\ shutdowns["cleanup"].calls >= signals.count
  /\ (exitCode # -1 /\ signals.count > 0) =>
       (exitCode # 0 /\ CleanupShutdownSettled)

SigtermWhileUp == signals.first = "SIGTERM" /\ signals.up

\* C9: a SIGTERM that reaches a service that is up (init resolved, listener
\* listening) closes the listener, the process exits with no other code
\* than 0, and it does exit once the listener's close has completed.
C9_SigtermExitsZero ==
  /\ [](SigtermWhileUp => (server = "closed" /\ exitCode \in {-1, 0}))
  /\ (SigtermWhileUp ~> exitCode = 0)

C9_Witness == SigtermWhileUp /\ exitCode = 0

C11_DiscoveryFailureAborts ==
  caught \in {"hydra.init", "registerService"} =>
    /\ pc = "caught"
    /\ logs["error"] >= 1
    /\ server = "null"
    /\ ~handlers
    /\ ~Called("server.listen")
    /\ ~Called("registerRoutesCallback")
    /\ ~Called("onServiceReady")
    /\ ~Called("resolve")
    /\ initPromise = "pending"
    /\ caught = "hydra.init" =>
         (~Called("setConfig") /\ ~Called("hydra.registerService"))

C11_Witness ==
  /\ pc = "caught"
  /\ caught = "registerService"
  /\ Len(registeredPlugins) = 2

\* C12: hydra.registerService is called only after the setConfig hook of
\* every registered plugin has settled, and the listener is started only
\* after registerService has succeeded.
C12_RegisterAfterSetConfig ==
  /\ Called("hydra.registerService") =>
       /\ Len(setConfigSt) = Len(registeredPlugins)
       /\ \A i \in 1..Len(setConfigSt) : setConfigSt[i] = "resolved"
       /\ \A i \in Ops("setConfig"), j \in Ops("hydra.registerService") : i < j
  /\ Called("server.listen") =>
       /\ \E j \in Ops("hydra.registerService") :
            \A k \in Ops("server.listen") : j < k
       /\ pc # "register"
       /\ caught # "registerService"

C12_Witness ==
  /\ Called("server.listen")
  /\ Len(registeredPlugins) = 2

\* C13: init resolves only after the onServiceReady hook of every plugin
\* has settled and the delay that follows has elapsed, it resolves at most
\* once, and the value it resolves with is the service info that
\* hydra.registerService() returned.
C13_ResolvesOnceWithServiceInfo ==
  /\ [](Called("resolve") <=> initPromise = "resolved")
  /\ [](Called("resolve") =>
         /\ Cardinality(Ops("resolve")) = 1
         /\ Len(onReadySt) = Len(registeredPlugins)
         /\ \A i \in 1..Len(onReadySt) : onReadySt[i] = "resolved"
         /\ serviceInfo \in ServiceInfos
         /\ \A i \in Ops("resolve") : trace[i].v = serviceInfo)
  /\ [][(initPromise # "resolved" /\ initPromise' = "resolved") =>
          (pc = "delay" /\ pc' = "resolved")]_vars
  /\ [][initPromise = "resolved" =>
          (initPromise' = "resolved" /\ serviceInfo' = serviceInfo)]_vars

C13_Witness ==
  /\ initPromise = "resolved"
  /\ Len(registeredPlugins) = 2
  /\ serviceInfo.serviceIP = "10.0.0.2"

\* The descriptors of the routes bound on the routers of rs.
BoundDescriptors(rs) ==
  UNION {UNION {{"[" \o l.methods[i] \o "]" \o e.routePath \o l.path :
                   i \in 1..Len(l.methods)} :
                l \in {x \in Range(e.stack) : x.kind = "route"}} :
         e \in Range(rs)}

RECURSIVE SumLen(_, _)
SumLen(st, i) ==
  IF i > Len(st) THEN 0 ELSE Len(st[i].methods) + SumLen(st, i + 1)

\* rs with the stack of its k-th router reordered by the permutation f.
Reordered(rs, k, f) ==
  [rs EXCEPT ![k].stack = [i \in 1..Len(@) |-> @[f[i]]]]

\* C15: a registerRoutes call hands to hydra.registerRoutes exactly the
\* descriptors [method]basePath+path of the routes bound on the given
\* router(s), one for each method of each bound route, none for a layer
\* without a route, and the set of descriptors is the same for every
\* order of a router's stack.
C15_ReportsBoundRoutes ==
  routesResult # "none" =>
    /\ routesResult = "reported"
    /\ Range(routesList) = BoundDescriptors(routes)
    /\ Len(routesList) = SumLen(routes[1].stack, 1)
         + (IF Len(routes) = 2 THEN SumLen(routes[2].stack, 1) ELSE 0)
    /\ Len(stack) = Len(routes)
    /\ \A k \in 1..Len(routes) :
         \A f \in Permutations(1..Len(routes[k].stack)) :
           Range(_registerRoutes(Reordered(routes, k, f), 1))
             = Range(routesList)

\* The first place of stage x in the stack (0 when it is not there).
Pos(x) ==
  IF \E i \in 1..Len(stack) : stack[i] = x
    THEN CHOOSE i \in 1..Len(stack) :
           stack[i] = x /\ \A j \in 1..(i - 1) : stack[j] # x
    ELSE 0

\* C16: once init has resolved, the routes mounted by the
\* route-registration callback sit ahead of the catch-all, the not-found
\* handler and the error handler, and a request for a mounted route is
\* answered by the route, not by the fallback or a 404.
C16_RoutesAheadOfFallback ==
  (initPromise = "resolved" /\ Called("registerRoutesCallback")) =>
    /\ 0 < Pos("routes")
    /\ Pos("routes") < Pos("catchAll")
    /\ Pos("catchAll") < Pos("notFound")
    /\ Pos("notFound") < Pos("errorHandler")
    /\ Dispatch(stack, "route", 1) = "routes"
    /\ Dispatch(stack, "other", 1) = "catchAll"

C16_Witness ==
  /\ initPromise = "resolved"
  /\ server = "listening"
  /\ config.registerMiddlewareCallback = "fn"
  /\ Dispatch(stack, "route", 1) = "routes"

LogTypes == {"fatal", "error", "debug", "info", "start", "other"}

LocalLevel(t) == IF t \in {"fatal", "error", "debug"} THEN t ELSE "info"

\* C17: log(type, message) writes one entry to the local sink for every
\* type (at the level of the type, info for any other value) and mirrors
\* it to the health log exactly once when the type is fatal or error and
\* never otherwise.
C17_LogMirrorsFatalAndError ==
  /\ healthLogs = logs["fatal"] + logs["error"]
  /\ Alive =>
       \A t \in LogTypes :
         LET s == log(Cur, t)
         IN /\ s.logs = [logs EXCEPT ![LocalLevel(t)] = @ + 1]
            /\ s.healthLogs =
                 healthLogs + (IF t \in {"fatal", "error"} THEN 1 ELSE 0)

C17_Witness ==
  /\ logs["fatal"] >= 1
  /\ logs["error"] >= 1
  /\ logs["info"] >= 2
  /\ healthLogs = logs["fatal"] + logs["error"]

\* The place of a stage in the claimed order of the middleware stack.
ClaimedRank(stage) ==
  CASE stage = "cors" -> 1
    [] stage = "responseTime" -> 2
    [] stage = "processId" -> 3
    [] stage \in {"helmet", "hidePoweredBy", "hsts"} -> 4
    [] stage = "urlencoded" -> 5
    [] stage = "json" -> 6
    [] stage = "callerMiddleware" -> 7
    [] stage = "static" -> 8
    [] stage = "routes" -> 9
    [] stage = "catchAll" -> 10
    [] stage = "notFound" -> 11
    [] stage = "errorHandler" -> 12

\* C19: after a completed init the middleware stack is in the order
\* cross-origin, response time, process id, security headers, body
\* parsers (URL-encoded, then JSON), caller middleware, static files,
\* routes, catch-all, not-found, error handler: no stage appears before
\* an earlier-listed one.
C19_MiddlewareOrder ==
  (initPromise = "resolved" /\ Called("registerRoutesCallback")) =>
    \A i, j \in 1..Len(stack) :
      i < j => ClaimedRank(stack[i]) <= ClaimedRank(stack[j])

\* The calls of setHydraExpress made on plugin p.
BindCalls(p) == {j \in Ops("setHydraExpress") : trace[j].p = p}

\* The last n plugins of the registry.
LastRegistered(n) ==
  SubSeq(registeredPlugins, Len(registeredPlugins) - n + 1,
         Len(registeredPlugins))

\* C18 as claimed: use(p1, ..., pn) appends the n plugins in order after
\* those already registered, calls setHydraExpress on each of them exactly
\* once, and its promise resolves only when all n hooks have completed.
C18_UseBindsEveryPlugin ==
  useArgs # <<>> =>
    /\ Len(registeredPlugins) >= Len(useArgs)
    /\ LastRegistered(Len(useArgs)) = useArgs
    /\ \A i \in 1..Len(useArgs) : Cardinality(BindCalls(useArgs[i])) = 1
    /\ Promise_series(useSt) = "fulfilled" =>
         (Len(useSt) = Len(useArgs)
          /\ \A i \in 1..Len(useSt) : useSt[i] = "resolved")

\* C18 amended: use(p1, ..., pn) registers and binds the plugins in the
\* given order, after those already registered, up to and including the
\* first one whose setHydraExpress throws (all n when none throws); every
\* registered plugin has been bound exactly once; the plugins behind a
\* throwing hook are neither registered nor bound; and the promise is
\* fulfilled only when all n hooks were called and each has completed.
C18_UseBindsUntilThrow ==
  useArgs # <<>> =>
    /\ Len(useSt) >= 1
    /\ Len(useSt) <= Len(useArgs)
    /\ Len(registeredPlugins) >= Len(useSt)
    /\ LastRegistered(Len(useSt)) = SubSeq(useArgs, 1, Len(useSt))
    /\ HookSeq("setHydraExpress") = registeredPlugins
    /\ \A p \in Range(registeredPlugins) : Cardinality(BindCalls(p)) = 1
    /\ \A i \in (Len(useSt) + 1)..Len(useArgs) :
         BindCalls(useArgs[i]) = {} /\ useArgs[i] \notin Range(registeredPlugins)
    /\ Len(useSt) < Len(useArgs) => useSt[Len(useSt)] = "threw"
    /\ \A i \in 1..(Len(useSt) - 1) : useSt[i] # "threw"
    /\ Promise_series(useSt) = "fulfilled" =>
         (Len(useSt) = Len(useArgs)
          /\ \A i \in 1..Len(useSt) : useSt[i] = "resolved")

C18_Witness ==
  /\ Len(useArgs) = 2
  /\ Len(registeredPlugins) = 3
  /\ Promise_series(useSt) = "fulfilled"

\* The outcome of the 'error' listener is a direct exit with status 1
\* after one more error entry, with no shutdown started.
DirectExit(s) ==
  /\ s.exitCode = 1
  /\ s.logs = [logs EXCEPT !["error"] = @ + 1]
  /\ s.shutdowns = shutdowns
  /\ s.closeListeners = closeListeners

\* The outcome of the 'error' listener is the error rethrown: no exit, the
\* uncaught exception is logged as fatal and the cleanup event starts a
\* shutdown.
Rethrown(s) ==
  /\ s.exitCode = -1
  /\ s.logs = [logs EXCEPT !["fatal"] = @ + 1]
  /\ s.shutdowns["cleanup"].calls = shutdowns["cleanup"].calls + 1

\* C20: a listener error with syscall listen and code EACCES or EADDRINUSE
\* is logged and the process exits with status 1; every other listener
\* error, of another code or another syscall, is rethrown and is not
\* turned into a direct exit.
C20_ListenErrorsClassified ==
  /\ []((Alive /\ server \in {"created", "listening"}) =>
         \A syscall \in ErrorSyscalls, code \in ListenErrorCodes :
           LET r == serverOnError(Cur, syscall, code)
           IN IF syscall = "listen" /\ code \in {"EACCES", "EADDRINUSE"}
                THEN DirectExit(r) ELSE Rethrown(r))
  /\ [][(server = "created" /\ server' = "closed") =>
          \/ (exitCode' = 1 /\ logs' = [logs EXCEPT !["error"] = @ + 1]
                /\ shutdowns' = shutdowns)
          \/ (exitCode' = -1 /\ logs' = [logs EXCEPT !["fatal"] = @ + 1]
                /\ shutdowns'["cleanup"].calls = 1)]_vars

C20_Witness ==
  /\ exitCode = 1
  /\ server = "closed"
  /\ shutdowns["cleanup"].calls = 0
  /\ ~Called("registerRoutesCallback")

\* C22: when the setConfig of plugin Pi rejects, the error is logged,
\* setConfig is not invoked on any plugin registered after Pi, and the
\* init promise is not rejected.
C22_RejectionStopsLaterSetConfig ==
  \A i \in 1..Len(setConfigSt) :
    setConfigSt[i] = "rejected" =>
      /\ \A j \in Ops("setConfig") : trace[j].p \notin
            {registeredPlugins[k] : k \in (i + 1)..Len(registeredPlugins)}
      /\ initPromise # "rejected"
      /\ pc = "caught" => logs["error"] >= 1

\* C23: whenever init rejects for a missing hydra block or a missing
\* required field, no default value has been written and the caller's
\* config, its hydra block included, is as it was passed in.
C23_NoDefaultingBeforeRejection ==
  initPromise = "rejected" => defaulted = {}

JwtRequests == {i \in 1..Len(requests) : requests[i].kind = "jwt"}

ErrorRequests == {i \in 1..Len(requests) : requests[i].kind = "error"}

\* C21: the validateJwtToken middleware calls next() only when the
\* Authorization header carries a token that the verifier accepts, and
\* then req.authToken is the decoded token; in every other case (no
\* header, no token after the scheme, verification failure) it sends
\* exactly one 401 response and does not call next().
C21_JwtNextOnlyWhenVerified ==
  \A i \in JwtRequests :
    LET r == requests[i]
    IN /\ r.nextCalls + Len(r.responses) <= 1
       /\ r.phase = "done" => r.nextCalls + Len(r.responses) = 1
       /\ r.phase = "verifying" => splitToken(r.header) # ""
       /\ r.nextCalls = 1 <=> r.verdict = "accepted"
       /\ r.verdict # "none" =>
            (Len(r.header) >= 2 /\ r.header[2] # "")
       /\ r.nextCalls = 1 => r.authToken = Decoded(r.header[2])
       /\ r.nextCalls = 0 => r.authToken = "undefined"
       /\ \A k \in 1..Len(r.responses) :
            r.responses[k].status = HTTP_UNAUTHORIZED
       /\ (Len(r.header) < 2 \/ splitToken(r.header) = "") =>
            (r.phase = "done" /\ Len(r.responses) = 1 /\ r.nextCalls = 0)

C21_Witness ==
  /\ \E i \in JwtRequests : requests[i].nextCalls = 1
  /\ \E i \in JwtRequests :
       requests[i].verdict = "rejected" /\ Len(requests[i].responses) = 1

\* The required paths in the order of requiredMembers.
SchemaOrder ==
  <<"hydra", "hydra.serviceName", "hydra.serviceDescription",
    "registerRoutesCallback">>

\* C24: validateConfig never throws and, for every config object, returns
\* exactly the required paths that are absent, in schema order, and the
\* empty list exactly when none is absent.
C24_ValidateConfigNeverThrows ==
  \A i \in 1..Len(validated) :
    LET c == validated[i].config
        r == validated[i].result
    IN /\ r # TypeError
       /\ r = SelectSeq(SchemaOrder, LAMBDA f : f \in Missing(c))
       /\ r = <<>> <=> Missing(c) = {}

\* C30: the error handler always responds with status s and body
\* {code: s}, s being the error's status or 500 when it has none; the body
\* has no other member; and the error is logged at fatal severity exactly
\* when its status is not 404.
C30_ErrorHandlerResponds ==
  \A i \in ErrorRequests :
    LET r == requests[i]
        s == IF r.errStatus = 0 THEN HTTP_SERVER_ERROR ELSE r.errStatus
    IN /\ Len(r.responses) = 1
       /\ r.responses[1].status = s
       /\ DOMAIN r.responses[1].body = {"code"}
       /\ r.responses[1].body.code = s
       /\ r.fatal = (IF r.errStatus = HTTP_NOT_FOUND THEN 0 ELSE 1)
       /\ r.nextCalls = 0

C30_Witness ==
  /\ \E i \in ErrorRequests :
       requests[i].errStatus = 0 /\ requests[i].fatal = 1
  /\ \E i \in ErrorRequests :
       requests[i].errStatus = HTTP_NOT_FOUND /\ requests[i].fatal = 0

\* C25: when a middleware callback is supplied, init invokes it exactly
\* once, in the same step that installs the body parsers before it and
\* static-file serving after it; when none is supplied nothing is invoked
\* in its place.
C25_MiddlewareCallbackOnce ==
  LET mw == Ops("registerMiddlewareCallback")
      supplied == config.registerMiddlewareCallback = "fn"
  IN /\ Cardinality(mw) <= 1
     /\ mw # {} =>
          /\ supplied
          /\ 0 < Pos("json") /\ 0 < Pos("urlencoded")
          /\ Pos("static") = 0 => server = "null"
          /\ Pos("static") > 0 => Pos("static") > Pos("urlencoded")
          /\ Pos("callerMiddleware") > 0 =>
               /\ Pos("json") < Pos("callerMiddleware")
               /\ Pos("urlencoded") < Pos("callerMiddleware")
               /\ Pos("callerMiddleware") < Pos("static")
     /\ (supplied /\ Pos("static") > 0) =>
          (Cardinality(mw) = 1 /\ Pos("callerMiddleware") > 0)
     /\ ~supplied => (mw = {} /\ Pos("callerMiddleware") = 0)

C25_Witness ==
  /\ Cardinality(Ops("registerMiddlewareCallback")) = 1
  /\ 0 < Pos("callerMiddleware")
  /\ Pos("callerMiddleware") < Pos("static")
  /\ server = "listening"

\* The descriptors of the layers added after the call.
LateDescriptors ==
  UNION {Range(layerDescriptors(routes[lateRoutes[i].router].routePath,
                                lateRoutes[i].layer)) :
           i \in 1..Len(lateRoutes)}

\* C26: the route descriptors are computed once per registerRoutes call
\* from the routers' routes at call time: adding a route to a router after
\* the call causes no further report to the discovery client and leaves
\* the advertised list as it was, so the routes of the routers as they are
\* now are the advertised ones plus the added ones.
C26_LateRoutesNotReported ==
  /\ [](routesResult = "reported" =>
          /\ Cardinality(Ops("hydra.registerRoutes")) = 1
          /\ routesList = _registerRoutes(routes, 1)
          /\ Range(_registerRoutes(CurrentRouters(routes, lateRoutes, 1), 1))
               = Range(routesList) \cup LateDescriptors
          /\ Len(stack) = Len(routes))
  /\ [][lateRoutes' # lateRoutes =>
          UNCHANGED <<routesList, routesResult, routes, stack, trace>>]_vars

C26_Witness ==
  /\ routesResult = "reported"
  /\ lateRoutes # <<>>
  /\ LateDescriptors # {}
  /\ ~(LateDescriptors \subseteq Range(routesList))

\* C27: the plugin registry is closed once init begins: no plugin is bound
\* or added after init has started, so every plugin that receives
\* onServiceReady has earlier received setConfig.
C27_RegistryClosedAtInit ==
  /\ \A i \in Ops("setHydraExpress"), j \in Ops("hydra.init") : i < j
  /\ \A j \in Ops("onServiceReady") :
       \E i \in Ops("setConfig") : i < j /\ trace[i].p = trace[j].p

\* The entries written to the local log.
TotalLogs == logs["fatal"] + logs["error"] + logs["debug"] + logs["info"]

\* C28 as stated: for a config that passes validation the subscription
\* to hydra's log events is made before hydra.init is called, and every
\* log event emitted during hydra.init is forwarded to log(); for a config
\* that fails validation no subscription is made.
C28_EveryLogEventForwarded ==
  /\ \A i \in Ops("hydra.on"), j \in Ops("hydra.init") : i < j
  /\ Called("hydra.init") => Called("hydra.on")
  /\ initPromise = "rejected" => ~Called("hydra.on")
  /\ TotalLogs = hydraEvents.emitted

\* C28: for a config that passes validation the subscription to hydra's
\* log events is made before hydra.init is called, and every log event
\* emitted during hydra.init is forwarded to log() except the dropped
\* 'Unavailable hydra-router instances' entries; for a config that fails
\* validation no subscription is made.
C28_LogSubscribedBeforeInit ==
  /\ \A i \in Ops("hydra.on"), j \in Ops("hydra.init") : i < j
  /\ Called("hydra.init") => Called("hydra.on")
  /\ initPromise = "rejected" =>
       (~Called("hydra.on") /\ hydraEvents.emitted = 0)
  /\ TotalLogs = hydraEvents.emitted - hydraEvents.suppressed
  /\ healthLogs = logs["fatal"] + logs["error"]

C28_Witness ==
  /\ Called("hydra.on")
  /\ hydraEvents.emitted = 2
  /\ hydraEvents.suppressed = 1
  /\ logs["error"] = 1

\* C29: shutdown triggered by a termination signal or a fatal error is
\* entered only once listener start has begun: whenever the cleanup path
\* invokes shutdown, server.listen has been called and the HTTP server
\* object exists, so no such shutdown fails for want of a server.
C29_CleanupShutdownHasServer ==
  /\ shutdowns["cleanup"].calls > 0 => Called("server.listen")
  /\ shutdowns["cleanup"].failed = 0

\* C37: a plugin whose setHydraExpress throws or rejects during use() is
\* not left in the plugin registry (the sequence init later runs the
\* setConfig and onServiceReady hooks over).
C37_FailedBindingNotRegistered ==
  \A i \in 1..Len(useSt) :
    useSt[i] \in {"threw", "rejected"} =>
      useArgs[i] \notin Range(registeredPlugins)

\* C38: forwarding between hydra's log events and log() cannot loop:
\* log() passes the suppress flag on every sendToHealthLog call, so one
\* log event of hydra causes at most one local log entry, at most one
\* health-log write (and none without a local entry), and no further log
\* event.
C38_LogForwardingDoesNotLoop ==
  [][hydraEvents'.emitted # hydraEvents.emitted =>
       /\ hydraEvents'.emitted = hydraEvents.emitted + 1
       /\ TotalLogs' - TotalLogs \in {0, 1}
       /\ healthLogs' - healthLogs \in {0, 1}
       /\ healthLogs' - healthLogs <= TotalLogs' - TotalLogs]_vars

C38_Witness ==
  /\ hydraEvents.emitted = 1
  /\ healthLogs = 1
  /\ logs["fatal"] = 1

\* C32: init(config, routesCallback, middlewareCallback), with a function
\* in second position, does what init(config, <no version>,
\* routesCallback, middlewareCallback) does: the same object reaches
\* _init, with the same outcome, and no version is set; and a callback
\* passed as an argument replaces the field of that name in config.
C32_VersionArgumentOptional ==
  inner.called =>
    LET rrc == IF inner.version = "fn" THEN "fn" ELSE inner.a3
        mw == IF inner.version = "fn" THEN inner.a3 ELSE inner.a4
        ref == MergeArgs(inner.config, rrc, mw)
    IN /\ config = ref
       /\ inner.version = "fn" => inner.innerVersion = "undefined"
       /\ inner.version # "fn" => inner.innerVersion = inner.version
       /\ initPromise = (IF InitCheck(ref).ok THEN "pending" ELSE "rejected")
       /\ initError = (IF InitCheck(ref).ok THEN <<>> ELSE InitCheck(ref).msg)
       /\ rrc = "fn" => config.registerRoutesCallback = "fn"
       /\ mw = "fn" => config.registerMiddlewareCallback = "fn"
       /\ rrc # "fn" => config.registerRoutesCallback
                          = inner.config.registerRoutesCallback
       /\ mw # "fn" => config.registerMiddlewareCallback
                         = inner.config.registerMiddlewareCallback

C32_Witness ==
  /\ inner.called
  /\ inner.version = "fn"
  /\ inner.a3 = "fn"
  /\ inner.config.registerRoutesCallback # "fn"
  /\ inner.config.registerMiddlewareCallback = "undefined"
  /\ config.registerMiddlewareCallback = "fn"
  /\ initPromise = "pending"

\* C36: when init is given a config file path, a rejection produced by
\* validating the loaded config reaches the caller unchanged, and the
\* 'Unable to load config' error is produced only when loading the file
\* fails.
C36_ValidationErrorReachesCaller ==
  fileInit.st = "rejected" =>
    IF fileInit.loaded
      THEN fileInit.err = initError /\ initPromise = "rejected"
      ELSE fileInit.err = UnableToLoad

\* C35: when config.jwtPublicCert is set and loading the certificate
\* fails, init rejects with the 'Can't load public cert' error and the
\* service is not started: no hydra.init, no hydra.registerService and no
\* listener after that rejection.
C35_CertFailureStopsStart ==
  cert = "failed" =>
    /\ initPromise = "rejected"
    /\ initError = CantLoadCert
    /\ ~Called("hydra.init")
    /\ ~Called("hydra.registerService")
    /\ ~Called("server.listen")
    /\ server = "null"

\* C31: in multi-process mode the supervisor forks N workers at start
\* and exactly one new worker for every worker exit, so once every exit
\* has been handled the number of live workers is N again; the supervisor
\* never calls hydra.init or hydra.registerService and never starts a
\* listener.
C31_SupervisorKeepsWorkers ==
  cluster.role = "master" =>
    /\ cluster.numWorkers >= 1
    /\ cluster.live + cluster.exited = cluster.numWorkers
    /\ cluster.forks = cluster.numWorkers + (cluster.exits - cluster.exited)
    /\ cluster.exited = 0 => cluster.live = cluster.numWorkers
    /\ ~Called("hydra.init")
    /\ ~Called("hydra.registerService")
    /\ ~Called("server.listen")
    /\ server = "null"

C31_Witness ==
  /\ cluster.role = "master"
  /\ cluster.exits = 2
  /\ cluster.exited = 0
  /\ cluster.live = cluster.numWorkers
  /\ cluster.numWorkers = 2

\* C34: every route that registerRoutes has advertised to hydra is
\* mounted ahead of the catch-all in the middleware stack, also when
\* registerRoutes is called after the listener has started and the
\* catch-all has been installed.
C34_AdvertisedRoutesAheadOfCatchAll ==
  (routesResult = "reported" /\ routesList # <<>> /\ Pos("catchAll") > 0) =>
    \A i \in 1..Len(stack) : stack[i] = "routes" => i < Pos("catchAll")

\* C33: every call of init eventually settles its promise or the process
\* exits: init does not stay pending for ever while the process runs.
C33_InitSettlesOrExits ==
  (initPromise = "pending") ~> (initPromise # "pending" \/ exitCode # -1)

\* C14: init does not resolve until the listen callback has run: when
\* init resolves the listener is bound and the route-registration callback
\* has been invoked.
C14_ResolveAfterListenCallback ==
  Called("resolve") =>
    \E j \in Ops("registerRoutesCallback") :
      \A k \in Ops("resolve") : j < k
====
